---------------------------- MODULE Spec2Model ----------------------------
(***************************************************************************)
(* A model of the metadata-enrichment pipeline of the travel-photo         *)
(* backend (src/back/app): the EXIF normalizer, the location enrichment    *)
(* merges, the label store and post creation over a SQLAlchemy session.    *)
(*                                                                         *)
(* Python values are encoded with one uniform shape per kind:              *)
(*   - a dict-or-not argument carries a "shape" field:                     *)
(*       "absent"  the key is missing,  "null" the value is None,          *)
(*       "empty"   the value is {},     "nondict" a truthy non-dict,       *)
(*       "dict"    a non-empty dict whose fields follow;                   *)
(*   - a number-or-not field is [p, n]: p = "missing" (no key),            *)
(*       "nonnum" (None, "abc", a list: float()/int() raises),             *)
(*       "num" (a number n), "numstr" (a string that parses to n),         *)
(*       "nan" (float NaN);                                                *)
(*   - a string is a sequence of one-character strings.                    *)
(* An operator named XBody is the body of a Python try block: it returns   *)
(* [raised, val]; the operator named after the function applies the        *)
(* except clause.                                                          *)
(***************************************************************************)
EXTENDS Integers, Sequences, FiniteSets, TLC

VARIABLES
    exif_in,    \* argument of ExifExtractService.process_exif_data
    exif_out,   \* [raised, val]: what the call did
    exif_pc     \* "call" before the call, "done" after it

VARIABLES
    loc_op,     \* the location operation of this behaviour
    loc_in,     \* its input records, one per photo
    loc_acc,    \* the records being enriched (enhanced_location)
    loc_i,      \* index of the photo being processed
    loc_ext,    \* what the external collaborator answered last
    loc_pc,     \* position inside the handler
    loc_resp    \* "none", "ok" (a value is returned) or "500"

VARIABLES
    db,         \* the Session and the datastore behind it: [rows, ins, pend, del]
    db_call,    \* the last LabelingService call: its arguments and its return
    post_op,    \* the post operation of this behaviour: "create" or "auto"
    post_req,   \* its request: [photos, categories]
    post_pc,    \* position inside the handler
    post_i,     \* index of the photo being stored
    post_j,     \* index of the LLM analysis result being stored
    post_ids,   \* post.id and photo.id as the handler reads them (0 is None)
    post_resp,  \* [status, photo_count]: status "none", "ok" or "500"
    post_hist   \* [failed, added]: whether a write of the operation failed,
                \* and every object the operation handed to db.add

VARIABLES
    lab_in,     \* the normalized EXIF record labels are derived from
    lab_out,    \* what prepare_exif_for_labeling returned for it
    lab_pc      \* "call", "prepared" (lab_out is set), "saved" (labels stored)

VARIABLES
    alb_op,     \* the AlbumCategoryService method of this behaviour
    alb_in,     \* its argument
    alb_out,    \* what it returned
    alb_pc      \* "call" before the call, "done" after it

VARIABLES
    conc_gen,   \* a save call racing a reader: [src, old, new], the source,
                \* the stored labels it replaces and the labels it writes
    conc_pc,    \* position of the save call
    conc_k,     \* how many labels the save call has added
    conc_seen   \* [read, rows]: what the reader's last query returned

VARIABLES
    api_op,     \* the endpoint family of this behaviour
    api_in,     \* the request being handled
    api_out,    \* the response to it
    api_pc,     \* "call" while a request may arrive, "done" at the end
    api_store   \* what the endpoints keep: stored objects, issued keys, posts

exif_vars == <<exif_in, exif_out, exif_pc>>
lab_vars == <<lab_in, lab_out, lab_pc>>
alb_vars == <<alb_op, alb_in, alb_out, alb_pc>>
conc_vars == <<conc_gen, conc_pc, conc_k, conc_seen>>
api_vars == <<api_op, api_in, api_out, api_pc, api_store>>
loc_vars == <<loc_op, loc_in, loc_acc, loc_i, loc_ext, loc_pc, loc_resp>>

post_vars == <<post_op, post_req, post_pc, post_i, post_j, post_ids,
               post_resp, post_hist>>
db_vars == <<db, db_call, post_vars>>

vars == <<exif_in, exif_out, exif_pc,
          loc_op, loc_in, loc_acc, loc_i, loc_ext, loc_pc, loc_resp,
          db, db_call, post_op, post_req, post_pc, post_i, post_j, post_ids,
          post_resp, post_hist, lab_in, lab_out, lab_pc,
          alb_op, alb_in, alb_out, alb_pc,
          conc_gen, conc_pc, conc_k, conc_seen,
          api_op, api_in, api_out, api_pc, api_store>>

-----------------------------------------------------------------------------
(* Bounds of the model *)

\* how many degrees beyond the legal range the coordinate inputs reach
Over == 1

\* how many photos a post creation request carries at most
MaxPhotos == 2

(* Program constants *)
LatMax == 90
LonMax == 180

-----------------------------------------------------------------------------
(* Python strings *)

Str0 == << >>

RECURSIVE SplitAcc(_, _, _, _)
\* str.split(sep) with an explicit one-character separator
SplitAcc(s, sep, cur, acc) ==
    IF s = << >> THEN Append(acc, cur)
    ELSE IF Head(s) = sep THEN SplitAcc(Tail(s), sep, << >>, Append(acc, cur))
    ELSE SplitAcc(Tail(s), sep, Append(cur, Head(s)), acc)

Split(s, sep) == SplitAcc(s, sep, << >>, << >>)

Contains(s, c) == \E i \in 1..Len(s) : s[i] = c

\* an optional string: None / a missing key, or the string s
NoStr == [has |-> FALSE, s |-> Str0]
SomeStr(s) == [has |-> TRUE, s |-> s]

Digit(d) == <<"0", "1", "2", "3", "4", "5", "6", "7", "8", "9">>[d + 1]

RECURSIVE NatToStr(_)
NatToStr(n) == IF n < 10 THEN <<Digit(n)>>
               ELSE NatToStr(n \div 10) \o <<Digit(n % 10)>>

\* str(x) of an int
IntToStr(n) == IF n < 0 THEN <<"-">> \o NatToStr(-n) ELSE NatToStr(n)

\* a string-or-int field: [k, s, n], k = "none" (missing or None),
\* "str" (the string s) or "int" (the int n)
PyNone == [k |-> "none", s |-> Str0, n |-> 0]
PyStr(s) == [k |-> "str", s |-> s, n |-> 0]
PyInt(n) == [k |-> "int", s |-> Str0, n |-> n]

Truthy(v) == \/ v.k = "str" /\ v.s # Str0
             \/ v.k = "int" /\ v.n # 0

\* str(v)
ToStr(v) == IF v.k = "int" THEN IntToStr(v.n) ELSE v.s

-----------------------------------------------------------------------------
(* Numbers *)

Absent == [has |-> FALSE, n |-> 0]
Num(x) == [has |-> TRUE, n |-> x]

Missing == [p |-> "missing", n |-> 0]
NonNum  == [p |-> "nonnum", n |-> 0]
NaN     == [p |-> "nan", n |-> 0]

\* float(x) / int(x) raises for None, a non-numeric string, a container
CoerceRaises(x) == x.p = "nonnum"

-----------------------------------------------------------------------------
(* ExifExtractService *)

\* a dict without keys is the record whose fields are all absent
_get_default_metadata ==
    [camera_info |-> [make |-> NoStr, model |-> NoStr, lens |-> NoStr],
     datetime |-> NoStr,
     gps |-> [null |-> TRUE, latitude |-> Absent, longitude |-> Absent,
              altitude |-> Absent],
     image_info |-> [width |-> Absent, height |-> Absent, format |-> NoStr,
                     mode |-> NoStr, orientation |-> Absent],
     extraction_success |-> FALSE]

GpsNone == _get_default_metadata.gps

\* the try block of _process_gps_data
ProcessGpsBody(g) ==
    IF g.shape \in {"absent", "null", "empty"}
    THEN [raised |-> FALSE, val |-> GpsNone]
    ELSE IF g.shape = "nondict"
    \* "latitude" in <a string or a list> is False; nothing is processed
    THEN [raised |-> FALSE, val |-> GpsNone]
    ELSE IF g.latitude.p # "missing" /\ CoerceRaises(g.latitude)
    THEN [raised |-> TRUE, val |-> GpsNone]
    ELSE IF g.longitude.p # "missing" /\ CoerceRaises(g.longitude)
    THEN [raised |-> TRUE, val |-> GpsNone]
    ELSE IF g.altitude.p # "missing" /\ CoerceRaises(g.altitude)
    THEN [raised |-> TRUE, val |-> GpsNone]
    ELSE LET lat == IF g.latitude.p \in {"num", "numstr"}
                       /\ -LatMax <= g.latitude.n /\ g.latitude.n <= LatMax
                    THEN Num(g.latitude.n) ELSE Absent
             lon == IF g.longitude.p \in {"num", "numstr"}
                       /\ -LonMax <= g.longitude.n /\ g.longitude.n <= LonMax
                    THEN Num(g.longitude.n) ELSE Absent
             alt == IF g.altitude.p \in {"num", "numstr"}
                    THEN Num(g.altitude.n) ELSE Absent
         IN  IF lat.has \/ lon.has \/ alt.has
             THEN [raised |-> FALSE,
                   val |-> [null |-> FALSE, latitude |-> lat,
                            longitude |-> lon, altitude |-> alt]]
             ELSE [raised |-> FALSE, val |-> GpsNone]

_process_gps_data(g) ==
    LET r == ProcessGpsBody(g) IN IF r.raised THEN GpsNone ELSE r.val

\* the try block of _process_camera_info; camera_info is
\* exif_data.get("camera_info", {}), so an absent key is the empty dict
ProcessCameraBody(c) ==
    IF c.shape \in {"null", "nondict"}
    THEN [raised |-> TRUE, val |-> _get_default_metadata.camera_info]
    ELSE IF c.shape \in {"absent", "empty"}
    THEN [raised |-> FALSE, val |-> _get_default_metadata.camera_info]
    ELSE [raised |-> FALSE,
          val |-> [make |-> IF Truthy(c.make) THEN SomeStr(ToStr(c.make))
                            ELSE NoStr,
                   model |-> IF Truthy(c.model) THEN SomeStr(ToStr(c.model))
                             ELSE NoStr,
                   lens |-> IF Truthy(c.lens) THEN SomeStr(ToStr(c.lens))
                            ELSE NoStr]]

_process_camera_info(c) ==
    LET r == ProcessCameraBody(c)
    IN  IF r.raised THEN _get_default_metadata.camera_info ELSE r.val

\* the try block of _process_datetime
ProcessDatetimeBody(d) ==
    IF ~Truthy(d) THEN [raised |-> FALSE, val |-> NoStr]
    \* ':' in <an int> raises TypeError
    ELSE IF d.k = "int" THEN [raised |-> TRUE, val |-> NoStr]
    ELSE IF Contains(d.s, ":") /\ Contains(d.s, " ")
    THEN LET parts == Split(d.s, " ")
         IN  IF Len(parts) # 2 THEN [raised |-> TRUE, val |-> NoStr]
             ELSE LET ymd == Split(parts[1], ":")
                  IN  IF Len(ymd) # 3 THEN [raised |-> TRUE, val |-> NoStr]
                      ELSE [raised |-> FALSE,
                            val |-> SomeStr(ymd[1] \o <<"-">> \o ymd[2]
                                            \o <<"-">> \o ymd[3]
                                            \o <<"T">> \o parts[2])]
    ELSE [raised |-> FALSE, val |-> SomeStr(d.s)]

_process_datetime(d) ==
    LET r == ProcessDatetimeBody(d) IN IF r.raised THEN NoStr ELSE r.val

\* the try block of _process_image_info; image_info is
\* exif_data.get("image_info", {})
ProcessImageBody(i) ==
    IF i.shape \in {"null"}
    \* "width" in None raises TypeError
    THEN [raised |-> TRUE, val |-> _get_default_metadata.image_info]
    ELSE IF i.shape \in {"absent", "empty", "nondict"}
    \* "width" in <a string or a list> is False
    THEN [raised |-> FALSE, val |-> _get_default_metadata.image_info]
    ELSE IF \/ i.width.p \in {"nonnum", "nan"}
            \/ i.height.p \in {"nonnum", "nan"}
            \/ i.orientation.p \in {"nonnum", "nan"}
    \* int() raises
    THEN [raised |-> TRUE, val |-> _get_default_metadata.image_info]
    ELSE [raised |-> FALSE,
          val |-> [width |-> IF i.width.p # "missing" THEN Num(i.width.n)
                             ELSE Absent,
                   height |-> IF i.height.p # "missing" THEN Num(i.height.n)
                              ELSE Absent,
                   format |-> IF i.format.k = "none" THEN NoStr
                              ELSE SomeStr(ToStr(i.format)),
                   mode |-> IF i.mode.k = "none" THEN NoStr
                            ELSE SomeStr(ToStr(i.mode)),
                   orientation |-> IF i.orientation.p # "missing"
                                   THEN Num(i.orientation.n) ELSE Absent]]

_process_image_info(i) ==
    LET r == ProcessImageBody(i)
    IN  IF r.raised THEN _get_default_metadata.image_info ELSE r.val

\* the try block of process_exif_data (lines 32-48)
ProcessExifBody(e) ==
    IF e.shape \in {"null", "empty"}
    THEN [raised |-> FALSE, val |-> _get_default_metadata]
    \* a truthy value that is no dict has no .get: AttributeError
    ELSE IF e.shape = "nondict"
    THEN [raised |-> TRUE, val |-> _get_default_metadata]
    ELSE [raised |-> FALSE,
          val |-> [camera_info |-> _process_camera_info(e.camera_info),
                   datetime |-> _process_datetime(e.datetime),
                   gps |-> _process_gps_data(e.gps),
                   image_info |-> _process_image_info(e.image_info),
                   extraction_success |-> e.extraction_success]]

\* process_exif_data without its except clause
ProcessExifNoExcept(e) == ProcessExifBody(e)

process_exif_data(e) ==
    LET r == ProcessExifBody(e)
    IN  IF r.raised THEN [raised |-> FALSE, val |-> _get_default_metadata]
        ELSE r

-----------------------------------------------------------------------------
(* Inputs of the EXIF normalizer *)

DtExif == <<"2","0","2","3",":","1","2",":","2","5"," ",
            "1","4",":","3","0",":","4","5">>
DtIso == <<"2","0","2","3","-","1","2","-","2","5","T",
           "1","4",":","3","0",":","4","5">>
DtTwoSpaces == <<"2","3",":","1","2",":","2","5"," "," ","1","4",":","3","0">>
DtShortDate == <<"2","3",":","1","2"," ","1","4",":","3","0">>
SCanon == <<"C","a","n","o","n">>
SJpeg == <<"J","P","E","G">>

LatNums == ((-(LatMax + Over))..(-LatMax)) \cup {0, 37}
           \cup (LatMax..(LatMax + Over))
LonNums == ((-(LonMax + Over))..(-LonMax)) \cup {0, 127}
           \cup (LonMax..(LonMax + Over))

LatInputs == {[p |-> "num", n |-> x] : x \in LatNums}
             \cup {[p |-> "numstr", n |-> 37], Missing, NonNum, NaN}
LonInputs == {[p |-> "num", n |-> x] : x \in LonNums}
             \cup {[p |-> "numstr", n |-> 127], Missing, NonNum, NaN}
AltInputs == {Missing, NonNum, [p |-> "num", n |-> 0], [p |-> "num", n |-> 120]}

GpsShape(sh) == [shape |-> sh, latitude |-> Missing, longitude |-> Missing,
                 altitude |-> Missing]
GpsInputs ==
    {GpsShape(sh) : sh \in {"absent", "null", "empty", "nondict"}}
    \cup [shape : {"dict"}, latitude : LatInputs, longitude : LonInputs,
          altitude : AltInputs]

DatetimeInputs ==
    {PyNone, PyStr(Str0), PyStr(DtExif), PyStr(DtIso), PyStr(DtTwoSpaces),
     PyStr(DtShortDate), PyInt(20231225)}

CameraShape(sh) == [shape |-> sh, make |-> PyNone, model |-> PyNone,
                    lens |-> PyNone]
CameraInputs ==
    {CameraShape(sh) : sh \in {"absent", "null", "nondict"}}
    \cup {[shape |-> "dict", make |-> PyStr(SCanon), model |-> PyInt(70),
           lens |-> PyStr(Str0)]}

ImageShape(sh) == [shape |-> sh, width |-> Missing, height |-> Missing,
                   format |-> PyNone, mode |-> PyNone, orientation |-> Missing]
ImageInputs ==
    {ImageShape(sh) : sh \in {"absent", "null"}}
    \cup {[shape |-> "dict", width |-> [p |-> "numstr", n |-> 4032],
           height |-> [p |-> "num", n |-> 3024], format |-> PyStr(SJpeg),
           mode |-> PyNone, orientation |-> [p |-> "num", n |-> 1]],
          [shape |-> "dict", width |-> [p |-> "num", n |-> 4032],
           height |-> NonNum, format |-> PyNone, mode |-> PyNone,
           orientation |-> Missing]}

ExifShape(sh) ==
    [shape |-> sh, camera_info |-> CameraShape("absent"), datetime |-> PyNone,
     gps |-> GpsShape("absent"), image_info |-> ImageShape("absent"),
     extraction_success |-> FALSE]

ExifInputs ==
    {ExifShape(sh) : sh \in {"null", "empty", "nondict"}}
    \cup [shape : {"dict"}, camera_info : CameraInputs,
          datetime : DatetimeInputs, gps : GpsInputs,
          image_info : ImageInputs, extraction_success : BOOLEAN]

NoExifOut == [raised |-> FALSE, val |-> _get_default_metadata]

-----------------------------------------------------------------------------
(* Location records.  A field value is a string; NULL is None and MISSING   *)
(* marks a key that the dict does not hold.                                 *)

NULL == "<null>"
MISSING == "<missing>"

\* truthiness of an Optional[str]: None and "" are falsy
IsSet(v) == v \notin {NULL, MISSING, ""}

\* a or b
PyOr(a, b) == IF IsSet(a) THEN a ELSE b

\* d.get(k) on a dict given as a record of its keys
DictGet(d, k) == IF k \in DOMAIN d THEN d[k] ELSE NULL

(* ReverseGeocoderService *)

_get_default_location ==
    [country |-> NULL, country_code |-> NULL, state |-> NULL, city |-> NULL,
     district |-> NULL, postcode |-> NULL, road |-> NULL,
     house_number |-> NULL, full_address |-> NULL, place_id |-> NULL,
     osm_type |-> NULL, osm_id |-> NULL, latitude |-> NULL,
     longitude |-> NULL]

\* data is the Nominatim answer: its address dict and display_name
_parse_address_data(data) ==
    [country |-> DictGet(data.address, "country"),
     country_code |-> DictGet(data.address, "country_code"),
     state |-> DictGet(data.address, "state"),
     city |-> PyOr(PyOr(DictGet(data.address, "city"),
                        DictGet(data.address, "town")),
                   DictGet(data.address, "village")),
     district |-> PyOr(DictGet(data.address, "suburb"),
                       DictGet(data.address, "district")),
     postcode |-> DictGet(data.address, "postcode"),
     road |-> DictGet(data.address, "road"),
     house_number |-> DictGet(data.address, "house_number"),
     full_address |-> DictGet(data, "display_name"),
     place_id |-> DictGet(data, "place_id"),
     osm_type |-> DictGet(data, "osm_type"),
     osm_id |-> DictGet(data, "osm_id"),
     latitude |-> DictGet(data, "lat"),
     longitude |-> DictGet(data, "lon")]

\* r is what the HTTP call did: r.ok is FALSE for a non-200 status and for
\* any exception (network, timeout, JSON), all of which the method absorbs
reverse_geocode(r) ==
    IF r.ok THEN _parse_address_data(r.data) ELSE _get_default_location

(* photo_route: the geocoding merge of enhance_location_info and
   batch_process_photos *)

\* the merge with its operands swapped: the geocoder's value wins
GeocodeMergeOverwrite(loc, geo) ==
    [loc EXCEPT !.country = PyOr(DictGet(geo, "country"), loc.country),
                !.city = PyOr(DictGet(geo, "city"), loc.city),
                !.region = PyOr(DictGet(geo, "region"), loc.region),
                !.address = PyOr(DictGet(geo, "address"), loc.address)]

\* the merge with the address falling back on the country of the record
GeocodeMergeCascade(loc, geo) ==
    IF DOMAIN geo = {} THEN loc
    ELSE [loc EXCEPT !.country = PyOr(loc.country, DictGet(geo, "country")),
                     !.city = PyOr(loc.city, DictGet(geo, "city")),
                     !.region = PyOr(loc.region, DictGet(geo, "region")),
                     !.address = PyOr(loc.address,
                                      PyOr(DictGet(geo, "address"), loc.country))]

GeocodeMerge(loc, geo) ==
    \* "if geocoded_info:" a dict with keys is truthy
    IF DOMAIN geo = {} THEN loc
    ELSE [loc EXCEPT !.country = PyOr(loc.country, DictGet(geo, "country")),
                     !.city = PyOr(loc.city, DictGet(geo, "city")),
                     !.region = PyOr(loc.region, DictGet(geo, "region")),
                     !.address = PyOr(loc.address, DictGet(geo, "address"))]

\* the attributes of class LLMLocationSearchService
LLMLocationSearchServiceAttrs ==
    {"llm_service", "analyze_location_from_exif",
     "analyze_location_from_image", "enhance_location_with_context",
     "_format_location_data", "_format_user_context"}

\* lines 236-238 of enhance_location_info; llm is the dict search_location
\* would have returned
LandmarkMerge(loc, llm) ==
    IF \A k \in DOMAIN llm : llm[k] = MISSING THEN loc
    ELSE [loc EXCEPT !.landmark = PyOr(loc.landmark,
                                       IF llm.landmark = MISSING THEN NULL
                                       ELSE llm.landmark),
                     !.confidence = IF llm.confidence = MISSING THEN "0.8"
                                    ELSE llm.confidence]

-----------------------------------------------------------------------------
(* LLM responses and the dicts merged from them.  A dict is a total         *)
(* function over DictKeys whose absent keys map to MISSING.                 *)

DictKeys == {"country", "landmark", "coordinates", "timezone", "error"}
GeoFieldKeys == {"country", "landmark", "coordinates"}

EmptyDict == [k \in DictKeys |-> MISSING]
DictTruthy(d) == \E k \in DictKeys : d[k] # MISSING

\* {**a, **b}
DictMerge(a, b) == [k \in DictKeys |-> IF b[k] # MISSING THEN b[k] ELSE a[k]]

\* LLMService._parse_json_response(response, lat, lon); coords is NULL when
\* lat and lon are not both given.  r.kind: "none" (the provider returned
\* None), "garbage" (no JSON), "nonobject" (JSON, but a list, number or
\* null), "object" (the JSON object r.obj).  Returns [raised, isdict, d].
_parse_json_response(r, coords) ==
    IF r.kind = "none"
    \* None.strip(): AttributeError, not caught here
    THEN [raised |-> TRUE, isdict |-> FALSE, d |-> EmptyDict]
    ELSE IF r.kind = "garbage"
    THEN [raised |-> FALSE, isdict |-> TRUE,
          d |-> [EmptyDict EXCEPT !["error"] = "parse failed",
                                  !["coordinates"] = coords]]
    ELSE IF r.kind = "nonobject"
    \* item assignment on a non-dict: TypeError, not caught here
    THEN IF coords # NULL
         THEN [raised |-> TRUE, isdict |-> FALSE, d |-> EmptyDict]
         ELSE [raised |-> FALSE, isdict |-> FALSE, d |-> EmptyDict]
    ELSE [raised |-> FALSE, isdict |-> TRUE,
          d |-> IF coords # NULL THEN [r.obj EXCEPT !["coordinates"] = coords]
                ELSE r.obj]

\* LLMService.extract_text_from_image: the vision call and its parse, with
\* every exception turned into an error dict.  Returns [isdict, error]:
\* whether the value is a dict and whether its "error" entry is truthy.
extract_text_from_image(r) ==
    IF r.kind \in {"raise", "none"} THEN [isdict |-> TRUE, error |-> TRUE]
    ELSE LET p == _parse_json_response(r, NULL)
         IN  [isdict |-> p.isdict, error |-> p.isdict /\ IsSet(p.d["error"])]

\* OCRAugmenterService.enhance_location_with_ocr after the text extraction
\* (lines 56-101): r is the chat completion.  Returns [isdict, d].
OcrChatAndMerge(existing, r) ==
    LET back == [isdict |-> TRUE, d |-> existing]   \* existing_location or {}
    IN  IF r.kind = "raise" THEN back
        ELSE LET p == _parse_json_response(r, NULL)
             IN  IF p.raised THEN back
                 ELSE IF ~DictTruthy(existing) THEN [isdict |-> p.isdict, d |-> p.d]
                 \* {**existing, **<a list>}: TypeError, caught at line 99
                 ELSE IF ~p.isdict THEN back
                 ELSE [isdict |-> TRUE, d |-> DictMerge(existing, p.d)]

\* LLMLocationSearchService.enhance_location_with_context (lines 68-111)
enhance_location_with_context(location_data, r) ==
    IF r.kind = "raise" THEN [isdict |-> TRUE, d |-> location_data]
    ELSE LET p == _parse_json_response(r, NULL)
         IN  IF p.raised THEN [isdict |-> TRUE, d |-> location_data]
             ELSE [isdict |-> p.isdict, d |-> p.d]

-----------------------------------------------------------------------------
(* Label derivation of LabelingService.save_exif_labels.  The EXIF record   *)
(* it reads has the shape process_exif_data produces.  A label name is a    *)
(* sequence of string chunks whose concatenation is the name.               *)

Uppers == <<"A","B","C","D","E","F","G","H","I","J","K","L","M",
            "N","O","P","Q","R","S","T","U","V","W","X","Y","Z">>
Lowers == <<"a","b","c","d","e","f","g","h","i","j","k","l","m",
            "n","o","p","q","r","s","t","u","v","w","x","y","z">>

LowerChar(c) ==
    IF \E i \in 1..26 : Uppers[i] = c
    THEN Lowers[CHOOSE i \in 1..26 : Uppers[i] = c]
    ELSE c

\* str.lower()
Lower(s) == [i \in 1..Len(s) |-> LowerChar(s[i])]

IsDigit(c) == \E d \in 0..9 : Digit(d) = c
DigitVal(c) == CHOOSE d \in 0..9 : Digit(d) = c

AllDigits(s) == \A i \in 1..Len(s) : IsDigit(s[i])

RECURSIVE StrToNat(_)
StrToNat(s) == IF s = << >> THEN 0
               ELSE 10 * StrToNat(SubSeq(s, 1, Len(s) - 1)) + DigitVal(s[Len(s)])

RECURSIVE ReplaceZ(_)
\* s.replace("Z", "+00:00")
ReplaceZ(s) ==
    IF s = << >> THEN << >>
    ELSE (IF Head(s) = "Z" THEN <<"+","0","0",":","0","0">> ELSE <<Head(s)>>)
         \o ReplaceZ(Tail(s))

DaysInMonth(y, m) ==
    IF m \in {4, 6, 9, 11} THEN 30
    ELSE IF m = 2
    THEN (IF (y % 4 = 0 /\ y % 100 # 0) \/ y % 400 = 0 THEN 29 ELSE 28)
    ELSE 31

\* "YYYY-MM-DD"
IsoDateOk(d) ==
    /\ Len(d) = 10
    /\ d[5] = "-" /\ d[8] = "-"
    /\ AllDigits(SubSeq(d, 1, 4)) /\ AllDigits(SubSeq(d, 6, 7))
    /\ AllDigits(SubSeq(d, 9, 10))
    /\ LET y == StrToNat(SubSeq(d, 1, 4))
           m == StrToNat(SubSeq(d, 6, 7))
           dd == StrToNat(SubSeq(d, 9, 10))
       IN  y >= 1 /\ m \in 1..12 /\ dd >= 1 /\ dd <= DaysInMonth(y, m)

\* "HH", "HH:MM" or "HH:MM:SS", each field in range
IsoClockOk(c) ==
    /\ Len(c) \in {2, 5, 8}
    /\ AllDigits(SubSeq(c, 1, 2)) /\ StrToNat(SubSeq(c, 1, 2)) < 24
    /\ Len(c) >= 5 => /\ c[3] = ":" /\ AllDigits(SubSeq(c, 4, 5))
                      /\ StrToNat(SubSeq(c, 4, 5)) < 60
    /\ Len(c) = 8 => /\ c[6] = ":" /\ AllDigits(SubSeq(c, 7, 8))
                     /\ StrToNat(SubSeq(c, 7, 8)) < 60

\* the UTC offset "+HH:MM" / "-HH:MM" that may end the time string
IsoOffsetOk(z) ==
    /\ Len(z) = 6
    /\ z[1] \in {"+", "-"}
    /\ IsoClockOk(SubSeq(z, 2, 6))

\* datetime.fromisoformat(s).hour: [ok, hour]; ok is FALSE where it raises
IsoHour(s) ==
    LET bad == [ok |-> FALSE, hour |-> 0]
    IN  IF Len(s) < 10 \/ ~IsoDateOk(SubSeq(s, 1, 10)) THEN bad
        ELSE IF Len(s) = 10 THEN [ok |-> TRUE, hour |-> 0]
        ELSE LET t == SubSeq(s, 12, Len(s))   \* s[10] is any separator
                 cut == IF \E j \in 1..Len(t) : t[j] \in {"+", "-"}
                        THEN (CHOOSE j \in 1..Len(t) :
                                 /\ t[j] \in {"+", "-"}
                                 /\ \A k \in 1..(j - 1) : t[k] \notin {"+", "-"})
                        ELSE Len(t) + 1
                 clock == SubSeq(t, 1, cut - 1)
                 zone == SubSeq(t, cut, Len(t))
             IN  IF IsoClockOk(clock) /\ (zone = << >> \/ IsoOffsetOk(zone))
                 THEN [ok |-> TRUE, hour |-> StrToNat(SubSeq(clock, 1, 2))]
                 ELSE bad

\* truthiness of gps.get("latitude"), image.get("width"), ...
NumTruthy(x) == x.has /\ x.n # 0

\* lines 59-66
TimeOfDay(hour) ==
    IF 6 <= hour /\ hour < 12 THEN "morning"
    ELSE IF 12 <= hour /\ hour < 18 THEN "afternoon"
    ELSE IF 18 <= hour /\ hour < 22 THEN "evening"
    ELSE "night"

\* the aspect rule of save_exif_labels with landscape starting at 1.3
AspectLabelWide(w, h) ==
    LET above == IF h > 0 THEN 10 * w > 13 * h ELSE 10 * w < 13 * h
        below == IF h > 0 THEN 10 * w < 7 * h ELSE 10 * w > 7 * h
    IN  IF above THEN "landscape"
        ELSE IF below THEN "portrait"
        ELSE "square"

\* lines 84-90: aspect_ratio = width / height against 1.5 and 0.7
AspectLabel(w, h) ==
    LET above == IF h > 0 THEN 2 * w > 3 * h ELSE 2 * w < 3 * h
        below == IF h > 0 THEN 10 * w < 7 * h ELSE 10 * w > 7 * h
    IN  IF above THEN "landscape"
        ELSE IF below THEN "portrait"
        ELSE "square"

Label(ltype, name) == [ltype |-> ltype, name |-> name]

\* lines 43-93 of save_exif_labels: the labels it adds, in order
SavedExifLabels(e) ==
    LET gps == e.gps
        loc == (IF ~gps.null /\ NumTruthy(gps.latitude) /\ NumTruthy(gps.longitude)
                THEN <<Label("location", <<"has_gps_coordinates">>)>> ELSE << >>)
               \o (IF ~gps.null /\ NumTruthy(gps.altitude)
                   THEN <<Label("location", <<"has_altitude">>)>> ELSE << >>)
        dt == e.datetime
        time == IF dt.has /\ dt.s # Str0
                THEN <<Label("time", <<"has_datetime">>)>>
                     \o (LET h == IsoHour(ReplaceZ(dt.s))
                         IN  IF h.ok THEN <<Label("time", <<TimeOfDay(h.hour)>>)>>
                             ELSE << >>)
                ELSE << >>
        cam == e.camera_info
        camera == (IF cam.make.has /\ cam.make.s # Str0
                   THEN <<Label("camera", <<"camera_make_">> \o Lower(cam.make.s))>>
                   ELSE << >>)
                  \o (IF cam.model.has /\ cam.model.s # Str0
                      THEN <<Label("camera", <<"camera_model_">> \o Lower(cam.model.s))>>
                      ELSE << >>)
                  \o (IF cam.lens.has /\ cam.lens.s # Str0
                      THEN <<Label("camera", <<"has_lens_info">>)>> ELSE << >>)
        img == e.image_info
        image == (IF NumTruthy(img.width) /\ NumTruthy(img.height)
                  THEN <<Label("image", <<AspectLabel(img.width.n, img.height.n)>>)>>
                  ELSE << >>)
                 \o (IF NumTruthy(img.orientation)
                     THEN <<Label("image", <<"orientation_">>
                                            \o IntToStr(img.orientation.n))>>
                     ELSE << >>)
    IN  loc \o time \o camera \o image

-----------------------------------------------------------------------------
(* ExifExtractService.prepare_exif_for_labeling (lines 119-178), called on  *)
(* the record process_exif_data returned.  Each list holds label names.     *)

EmptyLabeling ==
    [location_labels |-> << >>, time_labels |-> << >>,
     camera_labels |-> << >>, image_labels |-> << >>]

\* the buckets with the upper bound of the morning taken inclusively
HourLabelInclusive(hour) ==
    IF 6 <= hour /\ hour <= 12 THEN "morning"
    ELSE IF 12 <= hour /\ hour < 18 THEN "afternoon"
    ELSE IF 18 <= hour /\ hour < 22 THEN "evening"
    ELSE "night"

\* lines 142-149
HourLabel(hour) ==
    IF 6 <= hour /\ hour < 12 THEN "morning"
    ELSE IF 12 <= hour /\ hour < 18 THEN "afternoon"
    ELSE IF 18 <= hour /\ hour < 22 THEN "evening"
    ELSE "night"

\* the aspect labels with the bounds 1.5 and 0.7 taken inclusively
RatioLabelInclusive(w, h) ==
    LET above == IF h > 0 THEN 2 * w >= 3 * h ELSE 2 * w <= 3 * h
        below == IF h > 0 THEN 10 * w <= 7 * h ELSE 10 * w >= 7 * h
    IN  IF above THEN "landscape"
        ELSE IF below THEN "portrait"
        ELSE "square"

\* the aspect labels with landscape starting at the ratio 1.3
RatioLabelWide(w, h) ==
    LET above == IF h > 0 THEN 10 * w > 13 * h ELSE 10 * w < 13 * h
        below == IF h > 0 THEN 10 * w < 7 * h ELSE 10 * w > 7 * h
    IN  IF above THEN "landscape"
        ELSE IF below THEN "portrait"
        ELSE "square"

\* lines 167-173: aspect_ratio = image["width"] / image["height"], h # 0;
\* w/h > 3/2 and w/h < 7/10 with the sign of h taken into account
RatioLabel(w, h) ==
    LET above == IF h > 0 THEN 2 * w > 3 * h ELSE 2 * w < 3 * h
        below == IF h > 0 THEN 10 * w < 7 * h ELSE 10 * w > 7 * h
    IN  IF above THEN "landscape"
        ELSE IF below THEN "portrait"
        ELSE "square"

prepare_exif_for_labeling(exif_data) ==
    LET gps == exif_data.gps
        dt == exif_data.datetime
        camera == exif_data.camera_info
        image == exif_data.image_info
    IN  [location_labels |->
            (IF ~gps.null /\ NumTruthy(gps.latitude) /\ NumTruthy(gps.longitude)
             THEN <<<<"has_gps_coordinates">>>> ELSE << >>)
            \o (IF ~gps.null /\ NumTruthy(gps.altitude)
                THEN <<<<"has_altitude">>>> ELSE << >>),
         time_labels |->
            IF dt.has /\ dt.s # Str0
            THEN <<<<"has_datetime">>>>
                 \o (LET h == IsoHour(ReplaceZ(dt.s))
                     IN  IF h.ok THEN <<<<HourLabel(h.hour)>>>> ELSE << >>)
            ELSE << >>,
         camera_labels |->
            (IF camera.make.has /\ camera.make.s # Str0
             THEN <<<<"camera_make_">> \o Lower(camera.make.s)>> ELSE << >>)
            \o (IF camera.model.has /\ camera.model.s # Str0
                THEN <<<<"camera_model_">> \o Lower(camera.model.s)>> ELSE << >>)
            \o (IF camera.lens.has /\ camera.lens.s # Str0
                THEN <<<<"has_lens_info">>>> ELSE << >>),
         image_labels |->
            (IF NumTruthy(image.width) /\ NumTruthy(image.height)
             THEN <<<<RatioLabel(image.width.n, image.height.n)>>>> ELSE << >>)
            \o (IF NumTruthy(image.orientation)
                THEN <<<<"orientation_">> \o IntToStr(image.orientation.n)>>
                ELSE << >>)]

-----------------------------------------------------------------------------
(* The labels LabelingService.save_llm_labels adds (lines 173-185).         *)
(* llm_labels is a sequence of entries [ltype, kind, items, s], one per     *)
(* key of the dict: kind is "list" (items), "str" (s) or "other".  An item  *)
(* is a dict (k = "dict") with an optional "name" and "confidence", or any  *)
(* other value, of which str() is repr.  Confidence is held in tenths.      *)

DefaultConfidence == 8
ExifConfidence == 10

\* label.get("name", str(label)) and label.get("confidence", 0.8)
LlmItemLabel(ltype, it) ==
    IF it.k = "dict"
    THEN [ltype |-> ltype,
          name |-> IF it.name.p = "missing" THEN it.repr
                   ELSE IF it.name.p = "null" THEN <<NULL>>
                   ELSE it.name.s,
          conf |-> IF it.conf.has THEN it.conf.n ELSE DefaultConfidence]
    ELSE [ltype |-> ltype, name |-> it.repr, conf |-> DefaultConfidence]

RECURSIVE SavedLlmLabels(_)
SavedLlmLabels(l) ==
    IF l = << >> THEN << >>
    ELSE LET e == Head(l)
             here == IF e.kind = "list"
                     THEN [j \in 1..Len(e.items) |-> LlmItemLabel(e.ltype, e.items[j])]
                     ELSE IF e.kind = "str"
                     THEN <<[ltype |-> e.ltype, name |-> e.s,
                             conf |-> DefaultConfidence]>>
                     ELSE << >>
         IN  here \o SavedLlmLabels(Tail(l))

\* the labels of save_exif_labels with the confidence 1.0 every call passes
ExifLabelRows(e) ==
    LET ls == SavedExifLabels(e)
    IN  [j \in 1..Len(ls) |-> [ltype |-> ls[j].ltype, name |-> ls[j].name,
                               conf |-> ExifConfidence]]

-----------------------------------------------------------------------------
(* The datastore and the SQLAlchemy session (autocommit and autoflush off). *)
(* A session S is [rows, ins, pend, del]: the committed rows, the rows     *)
(* this transaction has INSERTed, the objects added but not flushed, and    *)
(* the committed rows it has DELETEd.  A row is identified by its           *)
(* table, its parent and its ordinal within the statement that wrote it;    *)
(* parent 0 is a NULL foreign key.                                          *)

Row(tbl, id, parent, src, ltype, name, conf) ==
    [tbl |-> tbl, id |-> id, parent |-> parent, src |-> src,
     ltype |-> ltype, name |-> name, conf |-> conf]

NoName == << >>

\* the table a foreign key of the table points to (db_models.py)
ParentTable(tbl) == IF tbl \in {"photo", "category"} THEN "post" ELSE "photo"

\* what a statement of the transaction sees
Visible(S) == (S.rows \ S.del) \cup S.ins

\* nullable=False and ForeignKey of the row's columns
ConstraintsOk(S, r) ==
    /\ r.name # <<NULL>>
    /\ r.tbl # "post" =>
          \E q \in Visible(S) \cup S.pend :
              q.tbl = ParentTable(r.tbl) /\ q.id = r.parent /\ r.parent # 0

\* db.add(obj)
Add(S, r) == [S EXCEPT !.pend = @ \cup {r}]

\* db.flush(): [ok, s]; the INSERTs fail on a broken constraint or when the
\* server fails (fault); a flush with nothing pending sends nothing
Flush(S, fault) ==
    IF S.pend = {} THEN [ok |-> TRUE, s |-> S]
    ELSE IF fault \/ \E r \in S.pend : ~ConstraintsOk(S, r)
    THEN [ok |-> FALSE, s |-> S]
    ELSE [ok |-> TRUE, s |-> [S EXCEPT !.ins = @ \cup S.pend, !.pend = {}]]

\* db.rollback()
Rollback(S) == [S EXCEPT !.ins = {}, !.pend = {}, !.del = {}]

\* db.commit(): flush, then COMMIT, which the server may fail as well
\* when the transaction has written anything
Commit(S, fault) ==
    LET f == Flush(S, fault)
    IN  IF ~f.ok THEN f
        ELSE IF fault /\ f.s.ins \cup f.s.del # {} THEN [ok |-> FALSE, s |-> f.s]
        ELSE [ok |-> TRUE,
              s |-> [rows |-> Visible(f.s), ins |-> {}, pend |-> {}, del |-> {}]]

\* a DELETE that takes effect outside the transaction
BulkDeleteAutocommit(S, tbl, photo_id, src) ==
    LET hit(r) == r.tbl = tbl /\ r.parent = photo_id /\ r.src = src
    IN  [S EXCEPT !.rows = {r \in @ : ~hit(r)},
                  !.ins = {r \in @ : ~hit(r)}]

\* db.query(PhotoLabel).filter(photo_id == p, source == src).delete() and
\* its like on llm_analyses and image_metadata: a DELETE sent at once
BulkDelete(S, tbl, photo_id, src) ==
    LET hit(r) == r.tbl = tbl /\ r.parent = photo_id /\ r.src = src
    IN  [S EXCEPT !.del = @ \cup {r \in S.rows : hit(r)},
                  !.ins = {r \in @ : ~hit(r)}]

\* the PhotoLabel objects _save_label adds for a sequence of labels
LabelObjects(photo_id, source, ls) ==
    {Row("label", j, photo_id, source, ls[j].ltype, ls[j].name, ls[j].conf)
        : j \in 1..Len(ls)}

\* a delete step that removes nothing
SaveRowsNoDelete(S, tbl, photo_id, src, rows, fault) ==
    LET c == Commit([S EXCEPT !.pend = @ \cup rows], fault)
    IN  IF c.ok THEN c ELSE [ok |-> FALSE, s |-> Rollback(c.s)]

\* try: delete, add, commit / except: rollback, return False
SaveRows(S, tbl, photo_id, src, rows, fault) ==
    LET d == BulkDelete(S, tbl, photo_id, src)
        c == Commit([d EXCEPT !.pend = @ \cup rows], fault)
    IN  IF c.ok THEN c ELSE [ok |-> FALSE, s |-> Rollback(c.s)]

\* lines 34-102: [ok, s], ok the value returned
save_exif_labels(S, photo_id, exif_data, fault) ==
    SaveRows(S, "label", photo_id, "exif",
             LabelObjects(photo_id, "exif", ExifLabelRows(exif_data)), fault)

\* lines 163-194
save_llm_labels(S, photo_id, llm_labels, fault) ==
    SaveRows(S, "label", photo_id, "llm",
             LabelObjects(photo_id, "llm", SavedLlmLabels(llm_labels)), fault)

\* lines 121-149
save_llm_analysis(S, photo_id, analysis_type, fault) ==
    SaveRows(S, "analysis", photo_id, analysis_type,
             {Row("analysis", 1, photo_id, analysis_type, "", NoName, 0)}, fault)

\* lines 210-237
save_image_metadata(S, photo_id, metadata_type, fault) ==
    SaveRows(S, "metadata", photo_id, metadata_type,
             {Row("metadata", 1, photo_id, metadata_type, "", NoName, 0)}, fault)

-----------------------------------------------------------------------------
(* Inputs of the location operations *)

\* the longest photo list of a batch request
MaxBatch == 2

LocationInfos ==
    [country : {NULL, "", "Korea"}, city : {NULL, "Busan"},
     region : {NULL, "Yeongnam"}, landmark : {NULL, "Tower"},
     address : {NULL, "12 Haeundae-ro"}, coordinates : {NULL, "35.1,129.0"},
     confidence : {NULL, "0.5"}]

BatchLocationInfos ==
    {l \in LocationInfos :
        /\ l.city = NULL /\ l.landmark = NULL /\ l.confidence = NULL
        /\ l.country # "" /\ l.address = NULL}

GeoAddress(country, state, city, town) ==
    [country |-> country, state |-> state, city |-> city, town |-> town]

GeoResponses ==
    {[ok |-> FALSE, data |-> [address |-> GeoAddress(NULL, NULL, NULL, NULL),
                              display_name |-> NULL]],
     [ok |-> TRUE, data |-> [address |-> GeoAddress("Japan", "Kanto", "Tokyo", NULL),
                             display_name |-> "1 Chiyoda, Tokyo"]],
     [ok |-> TRUE, data |-> [address |-> GeoAddress("Japan", NULL, NULL, "Hakone"),
                             display_name |-> "Hakone, Japan"]],
     [ok |-> TRUE, data |-> [address |-> GeoAddress(NULL, NULL, NULL, NULL),
                             display_name |-> NULL]]}

LandmarkResults ==
    [landmark : {MISSING, NULL, "Skytree"}, confidence : {MISSING, "0.9"}]

Dict3(c, l, x) == [EmptyDict EXCEPT !["country"] = c, !["landmark"] = l,
                                    !["coordinates"] = x]

ExistingLocations ==
    {Dict3(c, l, x) : c \in {MISSING, NULL, "Korea"},
                      l \in {MISSING, "Tower"},
                      x \in {MISSING, "35.1,129.0"}}

LlmObjects ==
    {[EmptyDict EXCEPT !["country"] = c, !["landmark"] = l,
                       !["timezone"] = z, !["error"] = e] :
        c \in {MISSING, NULL, "Japan"}, l \in {MISSING, "Skytree"},
        z \in {MISSING, "Asia/Tokyo"}, e \in {MISSING, "no service"}}

LlmResponses ==
    {[kind |-> k, obj |-> EmptyDict] :
        k \in {"raise", "none", "garbage", "nonobject"}}
    \cup {[kind |-> "object", obj |-> o] : o \in LlmObjects}

NoExt == [kind |-> "unset", obj |-> EmptyDict]

-----------------------------------------------------------------------------
(* Idle values of each part, for the specifications that leave it alone *)

(* Inputs of the labeling and post operations *)

SBeach == <<"b","e","a","c","h">>
SSunset == <<"s","u","n","s","e","t">>
DtMorningZ == <<"2","0","2","3","-","1","2","-","2","5","T",
                "0","7",":","0","5",":","0","0","Z">>

\* EXIF records of the shape the normalizer returns
ExifFull ==
    process_exif_data(
        [shape |-> "dict",
         camera_info |-> [shape |-> "dict", make |-> PyStr(SCanon),
                          model |-> PyInt(70), lens |-> PyStr(Str0)],
         datetime |-> PyStr(DtExif),
         gps |-> [shape |-> "dict", latitude |-> [p |-> "num", n |-> 37],
                  longitude |-> [p |-> "num", n |-> 127], altitude |-> Missing],
         image_info |-> [shape |-> "dict", width |-> [p |-> "numstr", n |-> 4032],
                         height |-> [p |-> "num", n |-> 3024],
                         format |-> PyStr(SJpeg), mode |-> PyNone,
                         orientation |-> [p |-> "num", n |-> 1]],
         extraction_success |-> TRUE]).val

ExifEquator ==
    process_exif_data(
        [shape |-> "dict",
         camera_info |-> CameraShape("absent"),
         datetime |-> PyStr(DtMorningZ),
         gps |-> [shape |-> "dict", latitude |-> [p |-> "num", n |-> 0],
                  longitude |-> [p |-> "num", n |-> 127],
                  altitude |-> [p |-> "num", n |-> 120]],
         image_info |-> [shape |-> "dict", width |-> [p |-> "num", n |-> 3024],
                         height |-> [p |-> "num", n |-> 4032],
                         format |-> PyNone, mode |-> PyNone,
                         orientation |-> Missing],
         extraction_success |-> TRUE]).val

ExifSamples == {_get_default_metadata, ExifFull, ExifEquator}

LlmStrItem(s) == [k |-> "str", name |-> [p |-> "missing", s |-> Str0],
                  conf |-> Absent, repr |-> s]
LlmDictItem(name, conf) == [k |-> "dict", name |-> name, conf |-> conf,
                            repr |-> <<"{...}">>]

LlmEntry(ltype, kind, items, s) ==
    [ltype |-> ltype, kind |-> kind, items |-> items, s |-> s]

\* {"scene": ["beach", {"name": "sunset", "confidence": 0.9}]}
LabelsList ==
    <<LlmEntry("scene", "list",
               <<LlmStrItem(SBeach),
                 LlmDictItem([p |-> "str", s |-> SSunset], Num(9))>>, Str0)>>

\* {"scene": "beach", "mood": 3, "object": ["beach", "beach", {"confidence": 1}]}
LabelsMixed ==
    <<LlmEntry("scene", "str", << >>, SBeach),
      LlmEntry("mood", "other", << >>, Str0),
      LlmEntry("object", "list",
               <<LlmStrItem(SBeach), LlmStrItem(SBeach),
                 LlmDictItem([p |-> "missing", s |-> Str0], Num(10))>>, Str0)>>

\* {"scene": [{"name": None}]}
LabelsNullName ==
    <<LlmEntry("scene", "list",
               <<LlmDictItem([p |-> "null", s |-> Str0], Absent)>>, Str0)>>

LlmLabelSamples == {<< >>, LabelsList, LabelsMixed, LabelsNullName}

\* replaced is the number of rows the call found stored for its key
NoCall == [fn |-> "none", photo_id |-> 0, exif_data |-> _get_default_metadata,
           llm_labels |-> << >>, ok |-> FALSE, replaced |-> 0]

\* the stored rows of a table that belong to a photo and carry a source
StoredRows(S, tbl, photo_id, src) ==
    {r \in S.rows : r.tbl = tbl /\ r.parent = photo_id /\ r.src = src}

EmptySession == [rows |-> {}, ins |-> {}, pend |-> {}, del |-> {}]

PostRow == Row("post", 1, 0, "", "", NoName, 0)
PhotoRow(id, post_id) == Row("photo", id, post_id, "", "", NoName, 0)
LocationRow(id, photo_id) == Row("location", id, photo_id, "", "", NoName, 0)
CategoryRow(id, post_id, ctype, cname) ==
    Row("category", id, post_id, "", ctype, cname, 0)

\* the stored photos, and the ids the labeling calls are made for: those
\* and one that no photo has
StoredPhotos == {1, 2}
CalledPhotos == StoredPhotos \cup {3}

NoRequest == [photos |-> << >>, categories |-> << >>]
NoResponse == [status |-> "none", photo_count |-> 0]
NoIds == [post |-> 0, photo |-> 0]
NoHist == [failed |-> FALSE, added |-> {}]

\* PhotoData as the handlers read it: location_info is None or a record,
\* llm_analysis / exif_data / labeling_data are None ("null"), {} ("empty")
\* or a dict; results is llm_analysis.get("results", {}) as a sequence of
\* [type, kind], kind "dict" or "str" being what the analysis value is
NoLocation == [has |-> FALSE, country |-> NULL, city |-> NULL]
NoAnalysis == [shape |-> "null", results |-> << >>]
NoExifData == [shape |-> "null", val |-> _get_default_metadata]
NoLabeling == [shape |-> "null", val |-> << >>]

PhotoPlain ==
    [location_info |-> NoLocation, llm_analysis |-> NoAnalysis,
     exif_data |-> NoExifData, labeling_data |-> NoLabeling]

PhotoLocated ==
    [PhotoPlain EXCEPT
        !.location_info = [has |-> TRUE, country |-> "Korea", city |-> "Seoul"]]

PhotoAnalysed ==
    [PhotoLocated EXCEPT
        !.llm_analysis = [shape |-> "dict",
                          results |-> <<[type |-> "scene", kind |-> "dict"],
                                        [type |-> "location", kind |-> "dict"]>>],
        !.exif_data = [shape |-> "dict", val |-> ExifFull],
        !.labeling_data = [shape |-> "dict", val |-> LabelsList]]

\* llm_analysis = {"results": {"scene": "beach"}}
PhotoTextResult ==
    [PhotoPlain EXCEPT
        !.llm_analysis = [shape |-> "dict",
                          results |-> <<[type |-> "scene", kind |-> "str"]>>],
        !.exif_data = [shape |-> "dict", val |-> ExifEquator]]

\* llm_analysis = {"results": {}}, labeling_data = {"scene": [{"name": None}]}
PhotoNullLabel ==
    [PhotoPlain EXCEPT
        !.llm_analysis = [shape |-> "dict", results |-> << >>],
        !.exif_data = [shape |-> "dict", val |-> ExifEquator],
        !.labeling_data = [shape |-> "dict", val |-> LabelsNullName]]

\* llm_analysis = {}: falsy, so that nothing of the labeling data is stored
PhotoEmptyAnalysis ==
    [PhotoPlain EXCEPT
        !.llm_analysis = [shape |-> "empty", results |-> << >>],
        !.exif_data = [shape |-> "dict", val |-> ExifFull]]

PhotoSamples == {PhotoPlain, PhotoLocated, PhotoAnalysed, PhotoTextResult,
                 PhotoNullLabel, PhotoEmptyAnalysis}

\* request.categories flattened in iteration order: [type, name]
CategorySamples ==
    {<< >>,
     <<[type |-> "country", name |-> <<"Korea">>]>>,
     <<[type |-> "country", name |-> <<"Korea">>],
       [type |-> "country", name |-> <<"Korea">>],
       [type |-> "city", name |-> <<"Seoul">>]>>}

PostIdle ==
    /\ post_op = "idle"
    /\ post_req = NoRequest
    /\ post_pc = "idle"
    /\ post_i = 1
    /\ post_j = 1
    /\ post_ids = NoIds
    /\ post_resp = NoResponse
    /\ post_hist = NoHist

DbIdle ==
    /\ db = EmptySession
    /\ db_call = NoCall
    /\ PostIdle

\* the hour of day the generated timestamps carry
TwoDigits(n) == <<Digit(n \div 10), Digit(n % 10)>>
DtAtHour(h) == <<"2","0","2","3","-","1","2","-","2","5","T">> \o TwoDigits(h)
               \o <<":","3","0",":","4","5">>
DtDateOnly == <<"2","0","2","3","-","1","2","-","2","5">>
DtClockOnly == <<"1","4",":","3","0">>
DtBadHour == <<"2","0","2","3","-","1","2","-","2","5","T">> \o TwoDigits(25)
             \o <<":","3","0",":","4","5">>

\* the records process_exif_data can return that the labels are derived from
NormalizedGps ==
    {GpsNone}
    \cup {g \in [null : {FALSE},
                 latitude : {Absent, Num(-LatMax), Num(0), Num(37)},
                 longitude : {Absent, Num(0), Num(127), Num(LonMax)},
                 altitude : {Absent, Num(0), Num(120)}] :
            g.latitude.has \/ g.longitude.has \/ g.altitude.has}

NormalizedDatetimes ==
    {NoStr, SomeStr(DtMorningZ), SomeStr(DtDateOnly), SomeStr(DtClockOnly),
     SomeStr(DtBadHour)}
    \cup {SomeStr(DtAtHour(h)) : h \in {0, 5, 6, 11, 12, 17, 18, 21, 22, 23}}

NormalizedCameras ==
    {_get_default_metadata.camera_info,
     [make |-> SomeStr(SCanon), model |-> SomeStr(IntToStr(70)), lens |-> NoStr]}

ImageOf(w, h, o) ==
    [width |-> w, height |-> h, format |-> NoStr, mode |-> NoStr,
     orientation |-> o]

NormalizedImages ==
    {_get_default_metadata.image_info,
     ImageOf(Num(4032), Absent, Absent),
     ImageOf(Num(0), Num(100), Num(1)),
     ImageOf(Num(100), Num(0), Absent)}
    \cup {ImageOf(Num(d[1]), Num(d[2]), Absent) :
            d \in {<<4032, 3024>>, <<4032, 2016>>, <<3, 2>>, <<301, 200>>,
                   <<7, 10>>, <<69, 100>>, <<2, 3>>, <<1, 1>>, <<-3, 2>>}}

NormalizedExifs ==
    [camera_info : NormalizedCameras, datetime : NormalizedDatetimes,
     gps : NormalizedGps, image_info : NormalizedImages,
     extraction_success : {TRUE}]

LabIdle ==
    /\ lab_in = _get_default_metadata
    /\ lab_out = EmptyLabeling
    /\ lab_pc = "idle"

-----------------------------------------------------------------------------
(* AlbumCategoryService (album_category_service.py).  Text is a sequence of *)
(* characters; a Hangul syllable of the lexicons is the one character       *)
(* "U+XXXX" named by its code point.  Confidence is counted in tenths.      *)

\* a value read with d.get(k, ''): the key is missing, or it holds PyNone,
\* PyStr(s) or PyInt(n)
KeyMissing == [k |-> "missing", s |-> Str0, n |-> 0]

\* sub in s, for two str
IsSubstring(sub, s) ==
    \E i \in 0..(Len(s) - Len(sub)) : SubSeq(s, i + 1, i + Len(sub)) = sub

\* ord(c) of a lower-case ASCII letter, up to the order of the alphabet
CharOrd(c) == CHOOSE i \in 1..26 : Lowers[i] = c

RECURSIVE StrLess(_, _)
\* a < b for two str of lower-case ASCII letters
StrLess(a, b) ==
    IF b = << >> THEN FALSE
    ELSE IF a = << >> THEN TRUE
    ELSE IF Head(a) = Head(b) THEN StrLess(Tail(a), Tail(b))
    ELSE CharOrd(Head(a)) < CharOrd(Head(b))

RECURSIVE ListsOf(_)
\* every list that holds each element of the set S once: the values
\* list(S) can take, the iteration order of a set of str being unspecified
ListsOf(S) ==
    IF S = {} THEN {<< >>}
    ELSE UNION {{<<x>> \o q : q \in ListsOf(S \ {x})} : x \in S}

IsSortedList(q) == \A i, j \in DOMAIN q : i < j => StrLess(q[i], q[j])

\* sorted(list(set(xs))) of a list of str
SortedSet(xs) ==
    CHOOSE q \in ListsOf({xs[i] : i \in DOMAIN xs}) : IsSortedList(q)

\* self.theme_categories, in the order of the dict literal
theme_categories ==
  <<
    [theme |-> <<"n","a","t","u","r","e">>,
     keywords |-> <<
        <<"U+C0B0">>, <<"U+BC14","U+B2E4">>, <<"U+C232">>,
        <<"U+ACF5","U+C6D0">>, <<"U+C815","U+C6D0">>,
        <<"U+D3ED","U+D3EC">>, <<"U+AC15">>, <<"U+D638","U+C218">>,
        <<"U+D574","U+BCC0">>, <<"m","o","u","n","t","a","i","n">>,
        <<"s","e","a">>, <<"f","o","r","e","s","t">>, <<"p","a","r","k">>,
        <<"g","a","r","d","e","n">>,
        <<"w","a","t","e","r","f","a","l","l">>, <<"r","i","v","e","r">>,
        <<"l","a","k","e">>, <<"b","e","a","c","h">>>>],
    [theme |-> <<"c","u","l","t","u","r","e">>,
     keywords |-> <<
        <<"U+BC15","U+BB3C","U+AD00">>, <<"U+BBF8","U+C220","U+AD00">>,
        <<"U+AD81","U+C804">>, <<"U+C0AC","U+C6D0">>,
        <<"U+AD50","U+D68C">>, <<"U+C131","U+B2F9">>,
        <<"U+C720","U+C801","U+C9C0">>, <<"m","u","s","e","u","m">>,
        <<"g","a","l","l","e","r","y">>, <<"p","a","l","a","c","e">>,
        <<"t","e","m","p","l","e">>, <<"c","h","u","r","c","h">>,
        <<"c","a","t","h","e","d","r","a","l">>,
        <<"h","e","r","i","t","a","g","e">>>>],
    [theme |-> <<"f","o","o","d">>,
     keywords |-> <<
        <<"U+B808","U+C2A4","U+D1A0","U+B791">>, <<"U+CE74","U+D398">>,
        <<"U+C74C","U+C2DD","U+C810">>, <<"U+C2DC","U+C7A5">>,
        <<"r","e","s","t","a","u","r","a","n","t">>, <<"c","a","f","e">>,
        <<"f","o","o","d">>, <<"m","a","r","k","e","t">>,
        <<"d","i","n","i","n","g">>>>],
    [theme |-> <<"s","h","o","p","p","i","n","g">>,
     keywords |-> <<
        <<"U+C1FC","U+D551","U+BAB0">>, <<"U+C0C1","U+C810">>,
        <<"U+C2DC","U+C7A5">>, <<"m","a","l","l">>, <<"s","h","o","p">>,
        <<"s","t","o","r","e">>,
        <<"m","a","r","k","e","t","p","l","a","c","e">>>>],
    [theme |-> <<"e","n","t","e","r","t","a","i","n","m","e","n","t">>,
     keywords |-> <<
        <<"U+D14C","U+B9C8","U+D30C","U+D06C">>,
        <<"U+B180","U+C774","U+ACF5","U+C6D0">>,
        <<"U+C601","U+D654","U+AD00">>, <<"U+ADF9","U+C7A5">>,
        <<"t","h","e","m","e","p","a","r","k">>,
        <<"a","m","u","s","e","m","e","n","t">>,
        <<"c","i","n","e","m","a">>, <<"t","h","e","a","t","e","r">>>>],
    [theme |-> <<"t","r","a","n","s","p","o","r","t","a","t","i","o","n">>,
     keywords |-> <<
        <<"U+ACF5","U+D56D">>, <<"U+C5ED">>,
        <<"U+BC84","U+C2A4","U+D130","U+BBF8","U+B110">>,
        <<"a","i","r","p","o","r","t">>, <<"s","t","a","t","i","o","n">>,
        <<"t","e","r","m","i","n","a","l">>,
        <<"t","r","a","n","s","p","o","r","t">>>>],
    [theme |-> <<"u","r","b","a","n">>,
     keywords |-> <<
        <<"U+B3C4","U+C2DC">>, <<"U+AC70","U+B9AC">>,
        <<"U+BE4C","U+B529">>, <<"c","i","t","y">>,
        <<"s","t","r","e","e","t">>, <<"b","u","i","l","d","i","n","g">>,
        <<"u","r","b","a","n">>, <<"d","o","w","n","t","o","w","n">>>>],
    [theme |-> <<"r","u","r","a","l">>,
     keywords |-> <<
        <<"U+B9C8","U+C744">>, <<"U+B18D","U+CD0C">>,
        <<"U+C804","U+C6D0">>, <<"v","i","l","l","a","g","e">>,
        <<"r","u","r","a","l">>,
        <<"c","o","u","n","t","r","y","s","i","d","e">>,
        <<"f","a","r","m">>>>]
  >>

\* self.country_cities, in the order of the dict literal
country_cities ==
  <<
    [country |-> <<"k","o","r","e","a">>,
     cities |-> <<
        <<"U+C11C","U+C6B8">>, <<"U+BD80","U+C0B0">>,
        <<"U+B300","U+AD6C">>, <<"U+C778","U+CC9C">>,
        <<"U+AD11","U+C8FC">>, <<"U+B300","U+C804">>,
        <<"U+C6B8","U+C0B0">>, <<"U+C81C","U+C8FC">>,
        <<"s","e","o","u","l">>, <<"b","u","s","a","n">>,
        <<"d","a","e","g","u">>, <<"i","n","c","h","e","o","n">>,
        <<"g","w","a","n","g","j","u">>, <<"d","a","e","j","e","o","n">>,
        <<"u","l","s","a","n">>, <<"j","e","j","u">>>>],
    [country |-> <<"j","a","p","a","n">>,
     cities |-> <<
        <<"U+B3C4","U+CFC4">>, <<"U+C624","U+C0AC","U+CE74">>,
        <<"U+AD50","U+D1A0">>, <<"U+C694","U+CF54","U+D558","U+B9C8">>,
        <<"U+B098","U+ACE0","U+C57C">>, <<"U+C0BF","U+D3EC","U+B85C">>,
        <<"U+D6C4","U+CFE0","U+C624","U+CE74">>, <<"U+ACE0","U+BCA0">>,
        <<"t","o","k","y","o">>, <<"o","s","a","k","a">>,
        <<"k","y","o","t","o">>, <<"y","o","k","o","h","a","m","a">>,
        <<"n","a","g","o","y","a">>, <<"s","a","p","p","o","r","o">>,
        <<"f","u","k","u","o","k","a">>, <<"k","o","b","e">>>>],
    [country |-> <<"c","h","i","n","a">>,
     cities |-> <<
        <<"U+BCA0","U+C774","U+C9D5">>, <<"U+C0C1","U+D558","U+C774">>,
        <<"U+AD11","U+C800","U+C6B0">>, <<"U+C120","U+C804">>,
        <<"U+CCAD","U+B450">>, <<"U+D56D","U+C800","U+C6B0">>,
        <<"b","e","i","j","i","n","g">>,
        <<"s","h","a","n","g","h","a","i">>,
        <<"g","u","a","n","g","z","h","o","u">>,
        <<"s","h","e","n","z","h","e","n">>,
        <<"c","h","e","n","g","d","u">>,
        <<"h","a","n","g","z","h","o","u">>>>],
    [country |-> <<"u","s","a">>,
     cities |-> <<
        <<"U+B274","U+C695">>,
        <<"U+B85C","U+C2A4","U+C564","U+C824","U+B808","U+C2A4">>,
        <<"U+C2DC","U+CE74","U+ACE0">>, <<"U+D734","U+C2A4","U+D134">>,
        <<"U+D53C","U+B2C9","U+C2A4">>,
        <<"U+D544","U+B77C","U+B378","U+D53C","U+C544">>,
        <<"n","e","w"," ","y","o","r","k">>,
        <<"l","o","s"," ","a","n","g","e","l","e","s">>,
        <<"c","h","i","c","a","g","o">>, <<"h","o","u","s","t","o","n">>,
        <<"p","h","o","e","n","i","x">>,
        <<"p","h","i","l","a","d","e","l","p","h","i","a">>>>],
    [country |-> <<"u","k">>,
     cities |-> <<
        <<"U+B7F0","U+B358">>, <<"U+BC84","U+BC0D","U+C5C4">>,
        <<"U+B9AC","U+C988">>, <<"U+AE00","U+B798","U+C2A4","U+ACE0">>,
        <<"U+C170","U+D544","U+B4DC">>,
        <<"U+BE0C","U+B798","U+B4DC","U+D3EC","U+B4DC">>,
        <<"l","o","n","d","o","n">>,
        <<"b","i","r","m","i","n","g","h","a","m">>,
        <<"l","e","e","d","s">>, <<"g","l","a","s","g","o","w">>,
        <<"s","h","e","f","f","i","e","l","d">>,
        <<"b","r","a","d","f","o","r","d">>>>],
    [country |-> <<"f","r","a","n","c","e">>,
     cities |-> <<
        <<"U+D30C","U+B9AC">>, <<"U+B9C8","U+B974","U+C138","U+C720">>,
        <<"U+B9AC","U+C639">>, <<"U+D234","U+B8E8","U+C988">>,
        <<"U+B2C8","U+C2A4">>, <<"U+B0AD","U+D2B8">>,
        <<"p","a","r","i","s">>, <<"m","a","r","s","e","i","l","l","e">>,
        <<"l","y","o","n">>, <<"t","o","u","l","o","u","s","e">>,
        <<"n","i","c","e">>, <<"n","a","n","t","e","s">>>>],
    [country |-> <<"g","e","r","m","a","n","y">>,
     cities |-> <<
        <<"U+BCA0","U+B97C","U+B9B0">>,
        <<"U+D568","U+BD80","U+B974","U+D06C">>, <<"U+BB8C","U+D5E8">>,
        <<"U+CFB0","U+B978">>,
        <<"U+D504","U+B791","U+D06C","U+D478","U+B974","U+D2B8">>,
        <<"U+C288","U+D22C","U+D2B8","U+AC00","U+B974","U+D2B8">>,
        <<"b","e","r","l","i","n">>, <<"h","a","m","b","u","r","g">>,
        <<"m","u","n","i","c","h">>, <<"c","o","l","o","g","n","e">>,
        <<"f","r","a","n","k","f","u","r","t">>,
        <<"s","t","u","t","t","g","a","r","t">>>>],
    [country |-> <<"i","t","a","l","y">>,
     cities |-> <<
        <<"U+B85C","U+B9C8">>, <<"U+BC00","U+B780">>,
        <<"U+B098","U+D3F4","U+B9AC">>, <<"U+D1A0","U+B9AC","U+B178">>,
        <<"U+D314","U+B808","U+B974","U+BAA8">>,
        <<"U+C81C","U+B178","U+BC14">>, <<"r","o","m","e">>,
        <<"m","i","l","a","n">>, <<"n","a","p","l","e","s">>,
        <<"t","u","r","i","n">>, <<"p","a","l","e","r","m","o">>,
        <<"g","e","n","o","a">>>>]
  >>

SPhotography == <<"p","h","o","t","o","g","r","a","p","h","y">>
SLandscape == <<"l","a","n","d","s","c","a","p","e">>

_get_default_categories ==
    [country |-> NoStr, city |-> NoStr, region |-> NoStr, themes |-> << >>,
     confidence |-> 0]

\* the condition of the first loop: country_name in country
\* or any(city.lower() in country for city in cities)
CountryMatches(entry, country) ==
    \/ IsSubstring(entry.country, country)
    \/ \E j \in DOMAIN entry.cities : IsSubstring(Lower(entry.cities[j]), country)

\* the condition of the second loop for one table entry: some city_name of
\* the entry has city_name.lower() in city
CityMatches(entry, city) ==
    \E j \in DOMAIN entry.cities : IsSubstring(Lower(entry.cities[j]), city)

\* index of the first element of a non-empty set of indices
First(I) == CHOOSE i \in I : \A k \in I : i <= k

\* _classify_location_categories: [raised, val]; the keys the code leaves
\* out of its dict are NoStr in val
_classify_location_categories(location_info) ==
    LET bad == [raised |-> TRUE, val |-> _get_default_categories]
    IN  IF \/ location_info.country.k \notin {"missing", "str"}
           \/ location_info.city.k \notin {"missing", "str"}
        THEN bad   \* None.lower() raises AttributeError
        ELSE
        LET country == Lower(location_info.country.s)
            city == Lower(location_info.city.s)
            byCountry == {i \in DOMAIN country_cities :
                            CountryMatches(country_cities[i], country)}
            byCity == {i \in DOMAIN country_cities :
                            CityMatches(country_cities[i], city)}
            cities == country_cities[First(byCity)].cities
            hit == First({j \in DOMAIN cities : IsSubstring(Lower(cities[j]), city)})
        IN  [raised |-> FALSE,
             val |->
               [country |->
                    IF byCity # {}
                    THEN SomeStr(country_cities[First(byCity)].country)
                    ELSE IF byCountry # {}
                    THEN SomeStr(country_cities[First(byCountry)].country)
                    ELSE NoStr,
                city |-> IF byCity # {} THEN SomeStr(cities[hit]) ELSE NoStr,
                region |-> IF location_info.state.k = "str"
                              /\ location_info.state.s # Str0
                           THEN SomeStr(location_info.state.s) ELSE NoStr]]

\* truthiness of camera_info.get("make"): None and "" are falsy
StrTruthy(x) == x.has /\ x.s # Str0

\* _classify_exif_categories: the list under "themes"
_classify_exif_categories(exif_data) ==
    (IF StrTruthy(exif_data.camera_info.make)
        \/ StrTruthy(exif_data.camera_info.model)
     THEN <<SPhotography>> ELSE << >>)
    \o (IF /\ NumTruthy(exif_data.image_info.width)
           /\ NumTruthy(exif_data.image_info.height)
           /\ exif_data.image_info.width.n * exif_data.image_info.height.n
                > 20000000
        THEN <<SLandscape>> ELSE << >>)

Min2(a, b) == IF a <= b THEN a ELSE b

\* the same sum without the share of the region
ConfidenceWithoutRegion(categories) ==
    Min2(10, (IF StrTruthy(categories.country) THEN 4 ELSE 0)
             + (IF StrTruthy(categories.city) THEN 3 ELSE 0)
             + (IF categories.themes # << >>
                THEN Min2(2, Len(categories.themes) * 1) ELSE 0))

\* _calculate_confidence, in tenths
_calculate_confidence(categories) ==
    Min2(10, (IF StrTruthy(categories.country) THEN 4 ELSE 0)
             + (IF StrTruthy(categories.city) THEN 3 ELSE 0)
             + (IF categories.themes # << >>
                THEN Min2(2, Len(categories.themes) * 1) ELSE 0)
             + (IF StrTruthy(categories.region) THEN 1 ELSE 0))

\* classify_photo_categories(photo_data, location_info); location_info has
\* shape "none" (None), "empty" ({}) or "dict"; photo_data.exif is [has, val]
classify_photo_categories(photo_data, location_info) ==
    LET loc == IF location_info.shape = "dict"
               THEN _classify_location_categories(location_info)
               ELSE [raised |-> FALSE, val |-> _get_default_categories]
        themes == IF photo_data.exif.has
                  THEN _classify_exif_categories(photo_data.exif.val)
                  ELSE << >>
        categories == [country |-> loc.val.country, city |-> loc.val.city,
                       region |-> loc.val.region,
                       themes |-> SortedSet(themes), confidence |-> 0]
    IN  IF loc.raised THEN _get_default_categories
        ELSE [categories EXCEPT !.confidence = _calculate_confidence(categories)]

\* str(v) inside the f-string of suggest_themes: a missing key reads '',
\* None reads "None"
Rendered(v) ==
    IF v.k = "missing" THEN Str0
    ELSE IF v.k = "none" THEN <<"N","o","n","e">>
    ELSE ToStr(v)

\* the themes suggest_themes appends: one per theme of which some keyword,
\* lower-cased, is in location_text
SuggestedThemes(location_info) ==
    LET location_text ==
            Lower(Rendered(location_info.country) \o <<" ">>
                  \o Rendered(location_info.city) \o <<" ">>
                  \o Rendered(location_info.landmark))
    IN  {theme_categories[i].theme : i \in
           {i \in DOMAIN theme_categories :
              \E j \in DOMAIN theme_categories[i].keywords :
                 IsSubstring(Lower(theme_categories[i].keywords[j]),
                             location_text)}}

\* suggest_themes(location_info): the lists a call can return.  It returns
\* list(set(suggested_themes)); on None, location_info.get raises and the
\* handler returns []
suggest_themes(location_info) ==
    IF location_info.shape = "none" THEN {<< >>}
    ELSE IF location_info.shape = "empty" THEN {<< >>}
    ELSE ListsOf(SuggestedThemes(location_info))

\* a digit run of one or two characters
ShortField(f) == Len(f) \in {1, 2} /\ AllDigits(f)

\* datetime.strptime(s, "%Y:%m:%d %H:%M:%S"): [ok, y, m, d, H, M, S]; ok is
\* FALSE where it raises ValueError.  The fields are separated by one space
\* and by colons (a run of white space, and a day written " 5", are not
\* among the inputs)
Strptime(s) ==
    LET bad == [ok |-> FALSE, y |-> 1, m |-> 1, d |-> 1,
                H |-> 0, M |-> 0, S |-> 0]
        halves == Split(s, " ")
    IN  IF Len(halves) # 2 THEN bad
        ELSE
        LET date == Split(halves[1], ":")
            clock == Split(halves[2], ":")
        IN  IF Len(date) # 3 \/ Len(clock) # 3 THEN bad
            ELSE IF ~(/\ Len(date[1]) = 4 /\ AllDigits(date[1])
                      /\ ShortField(date[2]) /\ ShortField(date[3])
                      /\ ShortField(clock[1]) /\ ShortField(clock[2])
                      /\ ShortField(clock[3]))
            THEN bad
            ELSE
            LET y == StrToNat(date[1])
                m == StrToNat(date[2])
                d == StrToNat(date[3])
                H == StrToNat(clock[1])
                M == StrToNat(clock[2])
                S == StrToNat(clock[3])
            IN  IF /\ y >= 1 /\ m \in 1..12 /\ d >= 1
                   /\ d <= DaysInMonth(y, m)
                   /\ H < 24 /\ M < 60 /\ S < 60
                THEN [ok |-> TRUE, y |-> y, m |-> m, d |-> d,
                      H |-> H, M |-> M, S |-> S]
                ELSE bad

RECURSIVE DaysBeforeMonth(_, _)
DaysBeforeMonth(y, m) ==
    IF m = 1 THEN 0 ELSE DaysBeforeMonth(y, m - 1) + DaysInMonth(y, m - 1)

\* date.toordinal()
Ordinal(dt) ==
    365 * (dt.y - 1) + ((dt.y - 1) \div 4) - ((dt.y - 1) \div 100)
    + ((dt.y - 1) \div 400) + DaysBeforeMonth(dt.y, dt.m) + dt.d

SecondOfDay(dt) == dt.H * 3600 + dt.M * 60 + dt.S

\* a <= b for two datetime: the order of dates.sort()
NotAfter(a, b) ==
    \/ Ordinal(a) < Ordinal(b)
    \/ Ordinal(a) = Ordinal(b) /\ SecondOfDay(a) <= SecondOfDay(b)

\* (b - a).days for a <= b: the whole days of the difference
DaysBetween(a, b) ==
    Ordinal(b) - Ordinal(a)
    - (IF SecondOfDay(b) < SecondOfDay(a) THEN 1 ELSE 0)

\* datetime.isoformat() of a datetime without microseconds
IsoFormat(dt) ==
    TwoDigits(dt.y \div 100) \o TwoDigits(dt.y % 100) \o <<"-">>
    \o TwoDigits(dt.m) \o <<"-">> \o TwoDigits(dt.d) \o <<"T">>
    \o TwoDigits(dt.H) \o <<":">> \o TwoDigits(dt.M) \o <<":">>
    \o TwoDigits(dt.S)

NoDateRange ==
    [has |-> FALSE, start_date |-> Str0, end_date |-> Str0,
     duration_days |-> 0]

\* _calculate_date_range(photos); photo.exif is [k, datetime]: the key is
\* missing, it is None, or a dict that holds datetime
_calculate_date_range(photos) ==
    LET read(i) == photos[i].exif.k = "dict"
                   /\ Truthy(photos[i].exif.datetime)
        dates == {Strptime(photos[i].exif.datetime.s) :
                    i \in {i \in DOMAIN photos :
                             read(i) /\ photos[i].exif.datetime.k = "str"}}
        parsed == {dt \in dates : dt.ok}
        first == CHOOSE a \in parsed : \A b \in parsed : NotAfter(a, b)
        last == CHOOSE a \in parsed : \A b \in parsed : NotAfter(b, a)
    IN  IF \E i \in DOMAIN photos :
              \/ photos[i].exif.k = "none"   \* None.get raises
              \/ read(i) /\ photos[i].exif.datetime.k = "int"   \* TypeError
        THEN NoDateRange   \* the outer handler returns None
        ELSE IF parsed = {} THEN NoDateRange
        ELSE [has |-> TRUE, start_date |-> IsoFormat(first),
              end_date |-> IsoFormat(last),
              duration_days |-> DaysBetween(first, last)]

\* the values of one kind that classify_album_categories collects in a set
Collected(photos, key) ==
    {photos[i].categories.val[key].s :
       i \in {i \in DOMAIN photos : /\ photos[i].categories.has
                                    /\ StrTruthy(photos[i].categories.val[key])}}

\* classify_album_categories(photos): the results a call can return, each
\* list being list() of a set; photo.categories is [has, val]
classify_album_categories(photos) ==
    LET themes == UNION {{photos[i].categories.val.themes[j] :
                            j \in DOMAIN photos[i].categories.val.themes} :
                         i \in {i \in DOMAIN photos : photos[i].categories.has}}
    IN  {[countries |-> a, cities |-> b, regions |-> c, themes |-> d,
          total_photos |-> Len(photos),
          date_range |-> _calculate_date_range(photos)] :
           a \in ListsOf(Collected(photos, "country")),
           b \in ListsOf(Collected(photos, "city")),
           c \in ListsOf(Collected(photos, "region")),
           d \in ListsOf(themes)}

-----------------------------------------------------------------------------
(* Inputs of the category classifier *)

\* how many photos an album holds at most
MaxAlbum == 2

SKoreaCap == <<"K","o","r","e","a">>
SKorea == <<"k","o","r","e","a">>
SJapanCap == <<"J","a","p","a","n">>
SUkraine == <<"U","k","r","a","i","n","e">>
SSeoulCap == <<"S","e","o","u","l">>
STokyoCap == <<"T","o","k","y","o">>
SCityPark == <<"C","i","t","y"," ","P","a","r","k">>
SParis == <<"P","A","R","I","S">>
SGyeonggi == <<"G","y","e","o","n","g","g","i">>
SBeachMarket == <<"B","e","a","c","h"," ","M","a","r","k","e","t">>
SMuseum == <<"N","a","t","i","o","n","a","l"," ","M","u","s","e","u","m">>
SSeoulKw == <<"s","e","o","u","l">>
STokyoKw == <<"t","o","k","y","o">>
SJapanKw == <<"j","a","p","a","n">>
DtJan15 == <<"2","0","2","4",":","0","1",":","1","5"," ","1","0",":","3","0",":","0","0">>
DtMar01 == <<"2","0","2","4",":","0","3",":","0","1"," ","0","9",":","0","0",":","0","0">>
DtShort == <<"2","0","2","4",":","1",":","1","4"," ","1","1",":","0",":","0">>

LocationOf(shape, country, city, state, landmark) ==
    [shape |-> shape, country |-> country, city |-> city, state |-> state,
     landmark |-> landmark]

\* location_info: None, {}, or a dict of free-text fields
AlbumLocations ==
    {LocationOf(sh, KeyMissing, KeyMissing, KeyMissing, KeyMissing) :
        sh \in {"none", "empty"}}
    \cup {LocationOf("dict", c, ci, st, lm) :
            c \in {KeyMissing, PyNone, PyStr(SKoreaCap), PyStr(SKorea),
                   PyStr(SJapanCap), PyStr(SUkraine)},
            ci \in {KeyMissing, PyNone, PyStr(SSeoulCap), PyStr(STokyoCap),
                    PyStr(SCityPark), PyStr(SParis)},
            st \in {KeyMissing, PyStr(Str0), PyStr(SGyeonggi)},
            lm \in {KeyMissing, PyNone, PyStr(SBeachMarket), PyStr(SMuseum)}}

\* photo_data: without "exif", or with a normalized EXIF record
AlbumPhotoData ==
    {[exif |-> [has |-> FALSE, val |-> _get_default_metadata]]}
    \cup {[exif |-> [has |-> TRUE,
                     val |-> [_get_default_metadata EXCEPT
                                !.camera_info = c, !.image_info = im]]] :
            c \in NormalizedCameras,
            im \in {_get_default_metadata.image_info,
                    ImageOf(Num(4032), Num(3024), Absent),
                    ImageOf(Num(5000), Num(4000), Absent),
                    ImageOf(Num(6000), Num(4000), Absent)}}

CategoriesOf(country, city, region, themes) ==
    [country |-> country, city |-> city, region |-> region,
     themes |-> themes, confidence |-> 0]

\* photo["categories"]: missing, or the categories of one photo
PhotoCategories ==
    {[has |-> FALSE, val |-> _get_default_categories],
     [has |-> TRUE, val |-> CategoriesOf(SomeStr(SKoreaCap), NoStr, NoStr, << >>)],
     [has |-> TRUE,
      val |-> CategoriesOf(SomeStr(SKorea), SomeStr(SSeoulKw),
                           SomeStr(SGyeonggi), <<SPhotography>>)],
     [has |-> TRUE,
      val |-> CategoriesOf(SomeStr(SJapanKw), SomeStr(STokyoKw), NoStr,
                           <<SLandscape, SPhotography>>)]}

\* photo["exif"]: missing, None, or a dict with or without a datetime
PhotoExifs ==
    {[k |-> "missing", datetime |-> KeyMissing],
     [k |-> "none", datetime |-> KeyMissing]}
    \cup {[k |-> "dict", datetime |-> d] :
            d \in {KeyMissing, PyStr(DtJan15), PyStr(DtMar01), PyStr(DtShort),
                   PyStr(DtIso), PyInt(5)}}

AlbumPhotos == [categories : PhotoCategories, exif : PhotoExifs]

NoAlbumInput ==
    [photo_data |-> [exif |-> [has |-> FALSE, val |-> _get_default_metadata]],
     location_info |-> LocationOf("none", KeyMissing, KeyMissing, KeyMissing,
                                  KeyMissing),
     photos |-> << >>]

AlbIdle ==
    /\ alb_op = "idle"
    /\ alb_in = << >>
    /\ alb_out = << >>
    /\ alb_pc = "idle"

NoGeneration == [src |-> "", old |-> << >>, new |-> << >>]
NotRead == [read |-> FALSE, rows |-> {}]

ConcIdle ==
    /\ conc_gen = NoGeneration
    /\ conc_pc = "idle"
    /\ conc_k = 0
    /\ conc_seen = NotRead

ApiIdle ==
    /\ api_op = "idle"
    /\ api_in = << >>
    /\ api_out = << >>
    /\ api_pc = "idle"
    /\ api_store = << >>

ExifIdle ==
    /\ exif_in = ExifShape("null")
    /\ exif_out = NoExifOut
    /\ exif_pc = "idle"

LocIdle ==
    /\ loc_op = "idle"
    /\ loc_in = << >>
    /\ loc_acc = << >>
    /\ loc_i = 1
    /\ loc_ext = NoExt
    /\ loc_pc = "idle"
    /\ loc_resp = "none"

-----------------------------------------------------------------------------
(* The EXIF normalizer as a state machine: one call per behaviour *)

InitExif ==
    /\ exif_in \in ExifInputs
    /\ exif_out = NoExifOut
    /\ exif_pc = "call"
    /\ LocIdle
    /\ DbIdle
    /\ LabIdle
    /\ AlbIdle
    /\ ConcIdle
    /\ ApiIdle

\* POST /photos/extract-exif: the call of process_exif_data
ProcessExif ==
    /\ exif_pc = "call"
    /\ exif_out' = process_exif_data(exif_in)
    /\ exif_pc' = "done"
    /\ UNCHANGED exif_in
    /\ UNCHANGED <<loc_vars, db_vars, lab_vars, alb_vars, conc_vars, api_vars>>

NextExif == ProcessExif

SpecExif == InitExif /\ [][NextExif]_vars

-----------------------------------------------------------------------------
(* The location operations: one request per behaviour *)

RECURSIVE SeqsUpTo(_, _)
SeqsUpTo(S, n) ==
    IF n = 0 THEN {<< >>}
    ELSE LET shorter == SeqsUpTo(S, n - 1)
         IN  shorter \cup {Append(s, x) : s \in {q \in shorter : Len(q) = n - 1},
                                          x \in S}

InitLoc ==
    /\ ExifIdle
    /\ DbIdle
    /\ LabIdle
    /\ AlbIdle
    /\ ConcIdle
    /\ ApiIdle
    /\ loc_i = 1
    /\ loc_ext = NoExt
    /\ loc_resp = "none"
    /\ \/ /\ loc_op = "enhance"
          /\ loc_in \in {<<l>> : l \in LocationInfos}
          /\ loc_pc = "geocode"
       \/ /\ loc_op = "batch"
          /\ loc_in \in SeqsUpTo(BatchLocationInfos, MaxBatch)
          /\ loc_pc = "loop"
       \/ /\ loc_op = "ocr"
          /\ loc_in \in {<<d>> : d \in ExistingLocations}
          /\ loc_pc = "extract"
       \/ /\ loc_op = "context"
          /\ loc_in \in {<<d>> : d \in ExistingLocations}
          /\ loc_pc = "chat"
    /\ loc_acc = loc_in

\* enhance_location_info, lines 216-227: reverse geocoding and its merge
EnhanceGeocode ==
    /\ loc_op = "enhance" /\ loc_pc = "geocode"
    /\ IF loc_acc[1].coordinates # NULL
       THEN \E r \in GeoResponses :
               /\ loc_acc' = <<GeocodeMerge(loc_acc[1], reverse_geocode(r))>>
               /\ loc_ext' = [kind |-> IF r.ok THEN "geo_ok" ELSE "geo_failed",
                              obj |-> EmptyDict]
       ELSE UNCHANGED <<loc_acc, loc_ext>>
    /\ loc_pc' = "llm"
    /\ UNCHANGED <<loc_op, loc_in, loc_i, loc_resp>>
    /\ UNCHANGED <<exif_vars, db_vars, lab_vars, alb_vars, conc_vars, api_vars>>

\* enhance_location_info, lines 229-243: the landmark lookup and the return
EnhanceLandmark ==
    /\ loc_op = "enhance" /\ loc_pc = "llm"
    /\ IF loc_acc[1].coordinates = NULL
       THEN loc_resp' = "ok" /\ UNCHANGED loc_acc
       ELSE IF "search_location" \in LLMLocationSearchServiceAttrs
       THEN /\ \E llm \in LandmarkResults :
                 loc_acc' = <<LandmarkMerge(loc_acc[1], llm)>>
            /\ loc_resp' = "ok"
       \* AttributeError, turned into HTTP 500 by the except clause
       ELSE loc_resp' = "500" /\ UNCHANGED loc_acc
    /\ loc_pc' = "done"
    /\ UNCHANGED <<loc_op, loc_in, loc_i, loc_ext>>
    /\ UNCHANGED <<exif_vars, db_vars, lab_vars, alb_vars, conc_vars, api_vars>>

\* batch_process_photos, lines 322-336: one photo of the loop
BatchPhoto ==
    /\ loc_op = "batch" /\ loc_pc = "loop"
    /\ loc_i <= Len(loc_in)
    \* a photo without location_info is a record without coordinates
    /\ IF loc_acc[loc_i].coordinates # NULL
       THEN \E r \in GeoResponses :
               loc_acc' = [loc_acc EXCEPT
                             ![loc_i] = GeocodeMerge(@, reverse_geocode(r))]
       ELSE UNCHANGED loc_acc
    /\ loc_i' = loc_i + 1
    /\ UNCHANGED <<loc_op, loc_in, loc_ext, loc_pc, loc_resp>>
    /\ UNCHANGED <<exif_vars, db_vars, lab_vars, alb_vars, conc_vars, api_vars>>

\* batch_process_photos, line 338
BatchReturn ==
    /\ loc_op = "batch" /\ loc_pc = "loop"
    /\ loc_i > Len(loc_in)
    /\ loc_pc' = "done"
    /\ loc_resp' = "ok"
    /\ UNCHANGED <<loc_op, loc_in, loc_acc, loc_i, loc_ext>>
    /\ UNCHANGED <<exif_vars, db_vars, lab_vars, alb_vars, conc_vars, api_vars>>

\* enhance_location_with_ocr, lines 50-54: the text extraction
OcrExtract ==
    /\ loc_op = "ocr" /\ loc_pc = "extract"
    /\ \E r \in LlmResponses :
          LET text == extract_text_from_image(r)
          IN  \* a non-dict has no .get (caught at line 99); an error entry
              \* returns at line 54: both return existing_location or {}
              IF ~text.isdict \/ text.error
              THEN loc_pc' = "done" /\ loc_resp' = "ok"
              ELSE loc_pc' = "chat" /\ UNCHANGED loc_resp
    /\ UNCHANGED <<loc_op, loc_in, loc_acc, loc_i, loc_ext>>
    /\ UNCHANGED <<exif_vars, db_vars, lab_vars, alb_vars, conc_vars, api_vars>>

\* enhance_location_with_ocr, lines 56-101: the chat completion, its parse
\* and the merge
OcrChat ==
    /\ loc_op = "ocr" /\ loc_pc = "chat"
    /\ \E r \in LlmResponses :
          LET out == OcrChatAndMerge(loc_in[1], r)
          IN  /\ loc_acc' = <<out.d>>
              /\ loc_resp' = IF out.isdict THEN "ok" ELSE "ok_nondict"
              /\ loc_ext' = r
    /\ loc_pc' = "done"
    /\ UNCHANGED <<loc_op, loc_in, loc_i>>
    /\ UNCHANGED <<exif_vars, db_vars, lab_vars, alb_vars, conc_vars, api_vars>>

\* POST /llm/enhance-location: enhance_location_with_context
ContextChat ==
    /\ loc_op = "context" /\ loc_pc = "chat"
    /\ \E r \in LlmResponses :
          LET out == enhance_location_with_context(loc_in[1], r)
          IN  /\ loc_acc' = <<out.d>>
              /\ loc_resp' = IF out.isdict THEN "ok" ELSE "ok_nondict"
              /\ loc_ext' = r
    /\ loc_pc' = "done"
    /\ UNCHANGED <<loc_op, loc_in, loc_i>>
    /\ UNCHANGED <<exif_vars, db_vars, lab_vars, alb_vars, conc_vars, api_vars>>

NextLoc ==
    \/ EnhanceGeocode
    \/ EnhanceLandmark
    \/ BatchPhoto
    \/ BatchReturn
    \/ OcrExtract
    \/ OcrChat
    \/ ContextChat

SpecLoc == InitLoc /\ [][NextLoc]_vars

-----------------------------------------------------------------------------
(* The location merges applied repeatedly with one merge input: SpecMerge.  *)
(* loc_in holds the incoming record, loc_ext the merge input (the answer of *)
(* the geocoder, or of the chat completion) and loc_acc the record before   *)
(* and after each application.                                              *)

\* how many times a merge is applied to a record
MaxApply == 2

InitMerge ==
    /\ ExifIdle
    /\ DbIdle
    /\ LabIdle
    /\ AlbIdle
    /\ ConcIdle
    /\ ApiIdle
    /\ loc_i = 1
    /\ loc_resp = "none"
    /\ loc_pc = "merge"
    /\ \/ /\ loc_op = "merge_geo"
          /\ loc_in \in {<<l>> : l \in LocationInfos}
          /\ loc_ext \in GeoResponses
       \/ /\ loc_op = "merge_ocr"
          /\ loc_in \in {<<d>> : d \in ExistingLocations}
          /\ loc_ext \in LlmResponses
    /\ loc_acc = loc_in

\* batch_process_photos, lines 322-336, for one photo: the geocoding merge
\* (enhance_location_info, lines 216-227, has the same statements)
ApplyGeocodeMerge ==
    /\ loc_op = "merge_geo" /\ loc_pc = "merge"
    /\ loc_i <= MaxApply
    /\ loc_acc' = Append(loc_acc,
                         IF loc_acc[loc_i].coordinates # NULL
                         THEN GeocodeMerge(loc_acc[loc_i], reverse_geocode(loc_ext))
                         ELSE loc_acc[loc_i])
    /\ loc_i' = loc_i + 1
    /\ UNCHANGED <<loc_op, loc_in, loc_ext, loc_pc, loc_resp>>
    /\ UNCHANGED <<exif_vars, db_vars, lab_vars, alb_vars, conc_vars, api_vars>>

\* enhance_location_with_ocr, lines 56-101, on the record the call before
\* returned.  A returned value that is no dict is not merged again.
ApplyOcrMerge ==
    /\ loc_op = "merge_ocr" /\ loc_pc = "merge"
    /\ loc_i <= MaxApply
    /\ LET out == OcrChatAndMerge(loc_acc[loc_i], loc_ext)
       IN  /\ loc_acc' = Append(loc_acc, out.d)
           /\ loc_pc' = IF out.isdict THEN "merge" ELSE "done"
    /\ loc_i' = loc_i + 1
    /\ UNCHANGED <<loc_op, loc_in, loc_ext, loc_resp>>
    /\ UNCHANGED <<exif_vars, db_vars, lab_vars, alb_vars, conc_vars, api_vars>>

NextMerge == ApplyGeocodeMerge \/ ApplyOcrMerge

SpecMerge == InitMerge /\ [][NextMerge]_vars

-----------------------------------------------------------------------------
(* LabelingService called for stored photos: SpecLabel *)

InitLabel ==
    /\ ExifIdle
    /\ LocIdle
    /\ PostIdle
    /\ LabIdle
    /\ AlbIdle
    /\ ConcIdle
    /\ ApiIdle
    /\ db = [EmptySession EXCEPT
                !.rows = {PostRow} \cup {PhotoRow(p, PostRow.id) : p \in StoredPhotos}]
    /\ db_call = NoCall

\* await labeling_service.save_exif_labels(db, photo_id, exif_data)
SaveExifLabels ==
    \E photo_id \in CalledPhotos, exif_data \in ExifSamples,
       fault \in BOOLEAN :
        LET r == save_exif_labels(db, photo_id, exif_data, fault)
        IN  /\ db' = r.s
            /\ db_call' = [fn |-> "save_exif_labels", photo_id |-> photo_id,
                           exif_data |-> exif_data, llm_labels |-> << >>,
                           ok |-> r.ok,
                           replaced |-> Cardinality(
                               StoredRows(db, "label", photo_id, "exif"))]
            /\ UNCHANGED <<exif_vars, loc_vars, post_vars, lab_vars, alb_vars, conc_vars, api_vars>>

\* await labeling_service.save_llm_labels(db, photo_id, llm_labels)
SaveLlmLabels ==
    \E photo_id \in CalledPhotos,
       llm_labels \in LlmLabelSamples, fault \in BOOLEAN :
        LET r == save_llm_labels(db, photo_id, llm_labels, fault)
        IN  /\ db' = r.s
            /\ db_call' = [fn |-> "save_llm_labels", photo_id |-> photo_id,
                           exif_data |-> _get_default_metadata,
                           llm_labels |-> llm_labels, ok |-> r.ok,
                           replaced |-> Cardinality(
                               StoredRows(db, "label", photo_id, "llm"))]
            /\ UNCHANGED <<exif_vars, loc_vars, post_vars, lab_vars, alb_vars, conc_vars, api_vars>>

NextLabel == SaveExifLabels \/ SaveLlmLabels

SpecLabel == InitLabel /\ [][NextLabel]_vars

-----------------------------------------------------------------------------
(* Post creation: SpecPost.  One behaviour is one request on an empty       *)
(* datastore; the handler is followed from statement to statement that      *)
(* talks to the database.                                                   *)

InitPost ==
    /\ ExifIdle
    /\ LocIdle
    /\ LabIdle
    /\ AlbIdle
    /\ ConcIdle
    /\ ApiIdle
    /\ db = EmptySession
    /\ db_call = NoCall
    /\ post_op \in {"create", "auto"}
    /\ post_req \in [photos : SeqsUpTo(PhotoSamples, MaxPhotos),
                     categories : CategorySamples]
    \* POST /posts/auto-create takes the list of photos only
    /\ post_op = "auto" => post_req.categories = << >>
    /\ post_pc = "begin"
    /\ post_i = 1
    /\ post_j = 1
    /\ post_ids = NoIds
    /\ post_resp = NoResponse
    /\ post_hist = NoHist

Hist(ok, rows) == [failed |-> post_hist.failed \/ ~ok,
                   added |-> post_hist.added \cup rows]

\* except Exception: db.rollback(); raise HTTPException(500)
Raise500(S) ==
    /\ db' = Rollback(S)
    /\ post_resp' = [status |-> "500", photo_count |-> 0]
    /\ post_pc' = "done"

\* the statement after the body of the photo loop
LeavePhoto ==
    IF post_i < Len(post_req.photos)
    THEN post_pc' = "photo" /\ post_i' = post_i + 1
    ELSE post_pc' = "categories" /\ post_i' = post_i

\* create_post lines 40-50: db.add(post); db.flush()
CreatePostBegin ==
    \E fault \in BOOLEAN :
        /\ post_op = "create" /\ post_pc = "begin"
        /\ LET f == Flush(Add(db, PostRow), fault)
           IN  /\ post_hist' = Hist(f.ok, {PostRow})
               /\ IF f.ok
                  THEN /\ db' = f.s
                       /\ post_ids' = [post |-> PostRow.id, photo |-> 0]
                       /\ post_pc' = IF post_req.photos = << >>
                                     THEN "categories" ELSE "photo"
                       /\ UNCHANGED post_resp
                  ELSE Raise500(f.s) /\ UNCHANGED post_ids
        /\ UNCHANGED <<post_op, post_req, post_i, post_j, db_call>>
        /\ UNCHANGED <<exif_vars, loc_vars, lab_vars, alb_vars, conc_vars, api_vars>>

\* create_post lines 53-81: db.add(photo); db.flush(); db.add(location)
CreatePostPhoto ==
    \E fault \in BOOLEAN :
        /\ post_op = "create" /\ post_pc = "photo"
        /\ LET pd == post_req.photos[post_i]
               photo == PhotoRow(post_i, post_ids.post)
               f == Flush(Add(db, photo), fault)
               location == IF pd.location_info.has
                           THEN {LocationRow(post_i, photo.id)} ELSE {}
           IN  IF f.ok
               THEN /\ db' = [f.s EXCEPT !.pend = @ \cup location]
                    /\ post_hist' = Hist(TRUE, {photo} \cup location)
                    /\ post_ids' = [post_ids EXCEPT !.photo = photo.id]
                    /\ IF pd.llm_analysis.shape = "dict"
                       THEN post_pc' = "exif_labels" /\ post_i' = post_i
                       ELSE LeavePhoto
                    /\ UNCHANGED post_resp
               ELSE /\ Raise500(f.s)
                    /\ post_hist' = Hist(FALSE, {photo})
                    /\ UNCHANGED <<post_ids, post_i>>
        /\ UNCHANGED <<post_op, post_req, post_j, db_call>>
        /\ UNCHANGED <<exif_vars, loc_vars, lab_vars, alb_vars, conc_vars, api_vars>>

\* lines 83-84 / 238-239: if photo_data.exif_data: save_exif_labels(...),
\* whose return value is dropped
PostExifLabels ==
    \E fault \in BOOLEAN :
        /\ post_pc = "exif_labels"
        /\ LET pd == post_req.photos[post_i]
               r == save_exif_labels(db, post_ids.photo, pd.exif_data.val, fault)
           IN  IF pd.exif_data.shape = "dict"
               THEN /\ db' = r.s
                    /\ db_call' =
                         [fn |-> "save_exif_labels", photo_id |-> post_ids.photo,
                          exif_data |-> pd.exif_data.val, llm_labels |-> << >>,
                          ok |-> r.ok,
                          replaced |-> Cardinality(
                              StoredRows(db, "label", post_ids.photo, "exif"))]
                    /\ post_hist' =
                         Hist(r.ok, LabelObjects(post_ids.photo, "exif",
                                                 ExifLabelRows(pd.exif_data.val)))
               ELSE UNCHANGED <<db, db_call, post_hist>>
        /\ post_pc' = IF post_req.photos[post_i].llm_analysis.results = << >>
                      THEN "llm_labels" ELSE "analysis"
        /\ post_j' = 1
        /\ UNCHANGED <<post_op, post_req, post_i, post_ids, post_resp>>
        /\ UNCHANGED <<exif_vars, loc_vars, lab_vars, alb_vars, conc_vars, api_vars>>

\* lines 87-92 / 242-247: one round of the loop over the analysis results;
\* analysis_data.get raises when the result is no dict
PostAnalysis ==
    \E fault \in BOOLEAN :
        /\ post_pc = "analysis"
        /\ LET results == post_req.photos[post_i].llm_analysis.results
               a == results[post_j]
               r == save_llm_analysis(db, post_ids.photo, a.type, fault)
           IN  IF a.kind # "dict"
               THEN /\ Raise500(db)
                    /\ UNCHANGED <<post_hist, post_j>>
               ELSE /\ db' = r.s
                    /\ post_hist' =
                         Hist(r.ok, {Row("analysis", 1, post_ids.photo, a.type,
                                         "", NoName, 0)})
                    /\ IF post_j < Len(results)
                       THEN post_j' = post_j + 1 /\ post_pc' = "analysis"
                       ELSE post_j' = post_j /\ post_pc' = "llm_labels"
                    /\ UNCHANGED post_resp
        /\ UNCHANGED <<post_op, post_req, post_i, post_ids, db_call>>
        /\ UNCHANGED <<exif_vars, loc_vars, lab_vars, alb_vars, conc_vars, api_vars>>

\* lines 95-96 / 250-251: if photo_data.labeling_data: save_llm_labels(...)
PostLlmLabels ==
    \E fault \in BOOLEAN :
        /\ post_pc = "llm_labels"
        /\ LET pd == post_req.photos[post_i]
               r == save_llm_labels(db, post_ids.photo, pd.labeling_data.val, fault)
           IN  IF pd.labeling_data.shape = "dict"
               THEN /\ db' = r.s
                    /\ db_call' =
                         [fn |-> "save_llm_labels", photo_id |-> post_ids.photo,
                          exif_data |-> _get_default_metadata,
                          llm_labels |-> pd.labeling_data.val, ok |-> r.ok,
                          replaced |-> Cardinality(
                              StoredRows(db, "label", post_ids.photo, "llm"))]
                    /\ post_hist' =
                         Hist(r.ok, LabelObjects(post_ids.photo, "llm",
                                        SavedLlmLabels(pd.labeling_data.val)))
               ELSE UNCHANGED <<db, db_call, post_hist>>
        /\ post_pc' = "metadata"
        /\ UNCHANGED <<post_op, post_req, post_i, post_j, post_ids, post_resp>>
        /\ UNCHANGED <<exif_vars, loc_vars, lab_vars, alb_vars, conc_vars, api_vars>>

\* lines 99-100 / 254-255: if photo_data.exif_data: save_image_metadata(...)
PostMetadata ==
    \E fault \in BOOLEAN :
        /\ post_pc = "metadata"
        /\ LET pd == post_req.photos[post_i]
               r == save_image_metadata(db, post_ids.photo, "exif", fault)
           IN  IF pd.exif_data.shape = "dict"
               THEN /\ db' = r.s
                    /\ post_hist' =
                         Hist(r.ok, {Row("metadata", 1, post_ids.photo, "exif",
                                         "", NoName, 0)})
               ELSE UNCHANGED <<db, post_hist>>
        /\ LeavePhoto
        /\ UNCHANGED <<post_op, post_req, post_j, post_ids, post_resp, db_call>>
        /\ UNCHANGED <<exif_vars, loc_vars, lab_vars, alb_vars, conc_vars, api_vars>>

\* create_post lines 103-133: the categories, db.commit(), the response
CreatePostCommit ==
    \E fault \in BOOLEAN :
        /\ post_op = "create" /\ post_pc = "categories"
        /\ LET cs == post_req.categories
               categories == {CategoryRow(k, post_ids.post, cs[k].type, cs[k].name)
                                : k \in 1..Len(cs)}
               c == Commit([db EXCEPT !.pend = @ \cup categories], fault)
           IN  /\ post_hist' = Hist(c.ok, categories)
               /\ IF c.ok
                  THEN /\ db' = c.s
                       /\ post_resp' = [status |-> "ok",
                                        photo_count |-> Len(post_req.photos)]
                       /\ post_pc' = "done"
                  ELSE Raise500(c.s)
        /\ UNCHANGED <<post_op, post_req, post_i, post_j, post_ids, db_call>>
        /\ UNCHANGED <<exif_vars, loc_vars, lab_vars, alb_vars, conc_vars, api_vars>>

\* auto_create_post lines 148-177: PhotoData(file_key, file_name, file_size,
\* content_type, location_info, exif_data); the other fields take their
\* default None
ToPhotoData(photo_dict) ==
    [location_info |-> IF photo_dict.location_info.has
                       THEN [has |-> TRUE,
                             country |-> photo_dict.location_info.country,
                             city |-> photo_dict.location_info.city]
                       ELSE NoLocation,
     llm_analysis |-> NoAnalysis,
     exif_data |-> photo_dict.exif_data,
     labeling_data |-> NoLabeling]

\* auto_create_post lines 144-196: the conversion, the LLM summary, tags and
\* route (each falls back to a default), db.add(post); db.flush()
AutoCreateBegin ==
    \E fault \in BOOLEAN :
        /\ post_op = "auto" /\ post_pc = "begin"
        /\ post_req' = [post_req EXCEPT
                           !.photos = [k \in 1..Len(post_req.photos)
                                          |-> ToPhotoData(post_req.photos[k])]]
        /\ LET f == Flush(Add(db, PostRow), fault)
           IN  /\ post_hist' = Hist(f.ok, {PostRow})
               /\ IF f.ok
                  THEN /\ db' = f.s
                       /\ post_ids' = [post |-> PostRow.id, photo |-> 0]
                       /\ post_pc' = IF post_req.photos = << >>
                                     THEN "categories" ELSE "photo"
                       /\ UNCHANGED post_resp
                  ELSE Raise500(f.s) /\ UNCHANGED post_ids
        /\ UNCHANGED <<post_op, post_i, post_j, db_call>>
        /\ UNCHANGED <<exif_vars, loc_vars, lab_vars, alb_vars, conc_vars, api_vars>>

\* auto_create_post lines 199-236: move_temp_to_permanent, and if it
\* succeeded db.add(photo) and db.add(location); nothing is flushed, so
\* photo.id is still None where the location takes it
AutoCreatePhoto ==
    \E move_success \in BOOLEAN :
        /\ post_op = "auto" /\ post_pc = "photo"
        /\ LET pd == post_req.photos[post_i]
               photo == PhotoRow(post_i, post_ids.post)
               location == IF pd.location_info.has
                           THEN {LocationRow(post_i, 0)} ELSE {}
           IN  IF move_success
               THEN /\ db' = [db EXCEPT !.pend = @ \cup {photo} \cup location]
                    /\ post_hist' = Hist(TRUE, {photo} \cup location)
                    /\ post_ids' = [post_ids EXCEPT !.photo = 0]
                    /\ IF pd.llm_analysis.shape = "dict"
                       THEN post_pc' = "exif_labels" /\ post_i' = post_i
                       ELSE LeavePhoto
               ELSE /\ UNCHANGED <<db, post_hist, post_ids>>
                    /\ LeavePhoto
        /\ UNCHANGED <<post_op, post_req, post_j, post_resp, db_call>>
        /\ UNCHANGED <<exif_vars, loc_vars, lab_vars, alb_vars, conc_vars, api_vars>>

\* the truthy values a location field takes over the photos of the request
LocationValues(photos, field) ==
    {photos[k].location_info[field] :
        k \in {n \in 1..Len(photos) : /\ photos[n].location_info.has
                                      /\ IsSet(photos[n].location_info[field])}}

\* auto_create_post lines 258-299: a category per country and per city,
\* db.commit(), the response
AutoCreateCommit ==
    \E fault \in BOOLEAN :
        /\ post_op = "auto" /\ post_pc = "categories"
        /\ LET countries == LocationValues(post_req.photos, "country")
               cities == LocationValues(post_req.photos, "city")
               categories ==
                   {CategoryRow(1, post_ids.post, "country", <<c>>) : c \in countries}
                   \cup {CategoryRow(1, post_ids.post, "city", <<c>>) : c \in cities}
               c == Commit([db EXCEPT !.pend = @ \cup categories], fault)
           IN  /\ post_hist' = Hist(c.ok, categories)
               /\ IF c.ok
                  THEN /\ db' = c.s
                       /\ post_resp' = [status |-> "ok",
                                        photo_count |-> Len(post_req.photos)]
                       /\ post_pc' = "done"
                  ELSE Raise500(c.s)
        /\ UNCHANGED <<post_op, post_req, post_i, post_j, post_ids, db_call>>
        /\ UNCHANGED <<exif_vars, loc_vars, lab_vars, alb_vars, conc_vars, api_vars>>

NextPost ==
    \/ CreatePostBegin
    \/ CreatePostPhoto
    \/ PostExifLabels
    \/ PostAnalysis
    \/ PostLlmLabels
    \/ PostMetadata
    \/ CreatePostCommit
    \/ AutoCreateBegin
    \/ AutoCreatePhoto
    \/ AutoCreateCommit

SpecPost == InitPost /\ [][NextPost]_vars

-----------------------------------------------------------------------------
(* Label derivation from a normalized EXIF record: SpecDerive.  The record  *)
(* goes through prepare_exif_for_labeling, then through save_exif_labels    *)
(* for a stored photo.                                                      *)

InitDerive ==
    /\ ExifIdle
    /\ LocIdle
    /\ PostIdle
    /\ db = [EmptySession EXCEPT !.rows = {PostRow, PhotoRow(1, PostRow.id)}]
    /\ db_call = NoCall
    /\ lab_in \in NormalizedExifs
    /\ lab_out = EmptyLabeling
    /\ lab_pc = "call"
    /\ AlbIdle
    /\ ConcIdle
    /\ ApiIdle

\* labeling_data = await exif_service.prepare_exif_for_labeling(processed)
PrepareExifForLabeling ==
    /\ lab_pc = "call"
    /\ lab_out' = prepare_exif_for_labeling(lab_in)
    /\ lab_pc' = "prepared"
    /\ UNCHANGED <<lab_in, exif_vars, loc_vars, db_vars, alb_vars, conc_vars, api_vars>>

\* await labeling_service.save_exif_labels(db, photo.id, exif_data)
PersistExifLabels ==
    \E fault \in BOOLEAN :
        /\ lab_pc = "prepared"
        /\ LET r == save_exif_labels(db, 1, lab_in, fault)
           IN  /\ db' = r.s
               /\ db_call' = [fn |-> "save_exif_labels", photo_id |-> 1,
                              exif_data |-> lab_in, llm_labels |-> << >>,
                              ok |-> r.ok, replaced |-> 0]
        /\ lab_pc' = "saved"
        /\ UNCHANGED <<lab_in, lab_out, exif_vars, loc_vars, post_vars,
                     alb_vars, conc_vars, api_vars>>

NextDerive == PrepareExifForLabeling \/ PersistExifLabels

SpecDerive == InitDerive /\ [][NextDerive]_vars

-----------------------------------------------------------------------------
(* The category classifier as a state machine: SpecAlbum.  One call of one  *)
(* method of AlbumCategoryService per behaviour.                            *)

InitAlbum ==
    /\ ExifIdle
    /\ LocIdle
    /\ DbIdle
    /\ LabIdle
    /\ ConcIdle
    /\ ApiIdle
    /\ alb_op \in {"photo", "themes", "album"}
    /\ alb_in \in
         IF alb_op = "photo"
         THEN {[NoAlbumInput EXCEPT !.photo_data = p, !.location_info = l] :
                 p \in AlbumPhotoData, l \in AlbumLocations}
         ELSE IF alb_op = "themes"
         THEN {[NoAlbumInput EXCEPT !.location_info = l] : l \in AlbumLocations}
         ELSE {[NoAlbumInput EXCEPT !.photos = q] :
                 q \in SeqsUpTo(AlbumPhotos, MaxAlbum)}
    /\ alb_out = << >>
    /\ alb_pc = "call"

\* await album_category_service.classify_photo_categories(photo_data, location_info)
ClassifyPhoto ==
    /\ alb_op = "photo" /\ alb_pc = "call"
    /\ alb_out' = classify_photo_categories(alb_in.photo_data,
                                            alb_in.location_info)
    /\ alb_pc' = "done"
    /\ UNCHANGED <<alb_op, alb_in, exif_vars, loc_vars, db_vars, lab_vars,
                   conc_vars, api_vars>>

\* await album_category_service.suggest_themes(location_info)
SuggestThemes ==
    /\ alb_op = "themes" /\ alb_pc = "call"
    /\ alb_out' \in suggest_themes(alb_in.location_info)
    /\ alb_pc' = "done"
    /\ UNCHANGED <<alb_op, alb_in, exif_vars, loc_vars, db_vars, lab_vars,
                   conc_vars, api_vars>>

\* await album_category_service.classify_album_categories(photos)
ClassifyAlbum ==
    /\ alb_op = "album" /\ alb_pc = "call"
    /\ alb_out' \in classify_album_categories(alb_in.photos)
    /\ alb_pc' = "done"
    /\ UNCHANGED <<alb_op, alb_in, exif_vars, loc_vars, db_vars, lab_vars,
                   conc_vars, api_vars>>

NextAlbum == ClassifyPhoto \/ SuggestThemes \/ ClassifyAlbum

SpecAlbum == InitAlbum /\ [][NextAlbum]_vars

-----------------------------------------------------------------------------
(* A save call of LabelingService racing a reader: SpecConc.  The save call *)
(* runs in the transaction of its own session db; the reader is another     *)
(* request with a session of its own (get_db), whose query returns          *)
(* committed rows.                                                          *)

\* LabelingService.get_photo_labels in a session without writes of its own:
\* the PhotoLabel rows of the photo that are committed
get_photo_labels(S, photo_id) ==
    {r \in S.rows : r.tbl = "label" /\ r.parent = photo_id}

\* the label generations of a source that can be stored
Generations(src) ==
    IF src = "exif" THEN {ExifLabelRows(e) : e \in ExifSamples}
    ELSE {SavedLlmLabels(l) : l \in LlmLabelSamples}

OtherSource(src) == IF src = "exif" THEN "llm" ELSE "exif"

InitConc ==
    /\ ExifIdle
    /\ LocIdle
    /\ PostIdle
    /\ LabIdle
    /\ AlbIdle
    /\ ApiIdle
    /\ db_call = NoCall
    /\ \E src \in {"exif", "llm"} :
         \E old \in Generations(src), new \in Generations(src) :
            /\ \A j \in DOMAIN old : old[j].name # <<NULL>>
            /\ conc_gen = [src |-> src, old |-> old, new |-> new]
            /\ db = [EmptySession EXCEPT
                       !.rows = {PostRow, PhotoRow(1, PostRow.id)}
                                \cup LabelObjects(1, src, old)
                                \cup LabelObjects(1, OtherSource(src),
                                                  SavedLlmLabels(LabelsList))]
    /\ conc_pc = "delete"
    /\ conc_k = 0
    /\ conc_seen = NotRead

\* save_exif_labels lines 36-39, save_llm_labels lines 166-169: the DELETE
\* of the stored labels of the source, inside the transaction
SaveDelete ==
    /\ conc_pc = "delete"
    /\ db' = BulkDelete(db, "label", 1, conc_gen.src)
    /\ conc_pc' = "add"
    /\ UNCHANGED <<conc_gen, conc_k, conc_seen, db_call, post_vars>>
    /\ UNCHANGED <<exif_vars, loc_vars, lab_vars, alb_vars, api_vars>>

\* one call of _save_label: db.add(photo_label)
SaveAdd ==
    /\ conc_pc = "add"
    /\ conc_k < Len(conc_gen.new)
    /\ LET l == conc_gen.new[conc_k + 1]
       IN  db' = Add(db, Row("label", conc_k + 1, 1, conc_gen.src,
                             l.ltype, l.name, l.conf))
    /\ conc_k' = conc_k + 1
    /\ UNCHANGED <<conc_gen, conc_pc, conc_seen, db_call, post_vars>>
    /\ UNCHANGED <<exif_vars, loc_vars, lab_vars, alb_vars, api_vars>>

\* db.commit() and return True, or the except branch: db.rollback() and
\* return False
SaveCommit ==
    \E fault \in BOOLEAN :
        /\ conc_pc = "add"
        /\ conc_k = Len(conc_gen.new)
        /\ LET c == Commit(db, fault)
           IN  /\ db' = IF c.ok THEN c.s ELSE Rollback(c.s)
               /\ conc_pc' = IF c.ok THEN "saved" ELSE "failed"
        /\ UNCHANGED <<conc_gen, conc_k, conc_seen, db_call, post_vars>>
        /\ UNCHANGED <<exif_vars, loc_vars, lab_vars, alb_vars, api_vars>>

\* an exception between the DELETE and the commit (exif_data or llm_labels
\* is no dict): the except branch, db.rollback() and return False
SaveRaise ==
    /\ conc_pc = "add"
    /\ conc_k = 0
    /\ db' = Rollback(db)
    /\ conc_pc' = "failed"
    /\ UNCHANGED <<conc_gen, conc_k, conc_seen, db_call, post_vars>>
    /\ UNCHANGED <<exif_vars, loc_vars, lab_vars, alb_vars, api_vars>>

\* a request of the reader: labels = db.query(PhotoLabel).filter(...).all()
ReadLabels ==
    /\ conc_pc \in {"delete", "add", "saved", "failed"}
    /\ conc_seen' = [read |-> TRUE, rows |-> get_photo_labels(db, 1)]
    /\ UNCHANGED <<conc_gen, conc_pc, conc_k, db, db_call, post_vars>>
    /\ UNCHANGED <<exif_vars, loc_vars, lab_vars, alb_vars, api_vars>>

NextConc == SaveDelete \/ SaveAdd \/ SaveCommit \/ SaveRaise \/ ReadLabels

SpecConc == InitConc /\ [][NextConc]_vars

-----------------------------------------------------------------------------
(* POST /images/metadata (image_metadata.py): SpecMeta.  The request is the *)
(* validated ImageMetadata object; an Optional number is Absent or Num(x),  *)
(* an Optional string NULL or the string.                                   *)

NoGps == [has |-> FALSE, lat |-> 0, lng |-> 0, alt |-> Absent,
          accuracyM |-> Absent]

NoLocationData ==
    [null |-> TRUE, coordinates |-> << >>, altitude |-> Absent,
     accuracy |-> Absent, estimated |-> FALSE]

\* the handler with the coordinates in the order of the request
ReceiveLatFirst(metadata) ==
    [status |-> "success",
     data |->
       [dimensions |-> [width |-> metadata.imageWidth,
                        height |-> metadata.imageHeight,
                        orientation |-> metadata.orientation],
        capturedAt |-> [local |-> metadata.takenAtLocal,
                        utc |-> metadata.takenAtUTC,
                        timezone_offset |-> metadata.offsetMinutes],
        location |->
          IF metadata.gps.has
          THEN [null |-> FALSE,
                coordinates |-> <<metadata.gps.lat, metadata.gps.lng>>,
                altitude |-> metadata.gps.alt,
                accuracy |-> metadata.gps.accuracyM,
                estimated |-> metadata.flags.isEstimatedGeo]
          ELSE NoLocationData]]

\* receive_image_metadata, lines 68-124: [status, data]; data is
\* processed_data without the fields copied from id, fileHash,
\* originalFilename, fileSizeBytes and mimeType
receive_image_metadata(metadata) ==
    [status |-> "success",
     data |->
       [dimensions |-> [width |-> metadata.imageWidth,
                        height |-> metadata.imageHeight,
                        orientation |-> metadata.orientation],
        capturedAt |-> [local |-> metadata.takenAtLocal,
                        utc |-> metadata.takenAtUTC,
                        timezone_offset |-> metadata.offsetMinutes],
        location |->
          \* a GPSData object is truthy whatever its fields hold
          IF metadata.gps.has
          THEN [null |-> FALSE,
                coordinates |-> <<metadata.gps.lng, metadata.gps.lat>>,
                altitude |-> metadata.gps.alt,
                accuracy |-> metadata.gps.accuracyM,
                estimated |-> metadata.flags.isEstimatedGeo]
          ELSE NoLocationData]]

\* the requests that pass the validation of ImageMetadata
MetadataRequests ==
    [gps : {NoGps} \cup [has : {TRUE}, lat : {-90, 0, 37}, lng : {0, 37, 127},
                         alt : {Absent, Num(0), Num(120)},
                         accuracyM : {Absent, Num(5)}],
     flags : [isEstimatedGeo : BOOLEAN],
     imageWidth : {Absent, Num(4032)}, imageHeight : {Absent, Num(3024)},
     orientation : {Absent, Num(1)},
     takenAtLocal : {NULL, "2024-01-15T10:30:00"},
     takenAtUTC : {NULL, "2024-01-15T01:30:00Z"},
     offsetMinutes : {Absent, Num(540)}]

InitMeta ==
    /\ ExifIdle
    /\ LocIdle
    /\ DbIdle
    /\ LabIdle
    /\ AlbIdle
    /\ ConcIdle
    /\ api_op = "metadata"
    /\ api_in \in MetadataRequests
    /\ api_out = << >>
    /\ api_pc = "call"
    /\ api_store = << >>

\* POST /images/metadata
ReceiveImageMetadata ==
    /\ api_op = "metadata" /\ api_pc = "call"
    /\ api_out' = receive_image_metadata(api_in)
    /\ api_pc' = "done"
    /\ UNCHANGED <<api_op, api_in, api_store>>
    /\ UNCHANGED <<exif_vars, loc_vars, db_vars, lab_vars, alb_vars, conc_vars>>

NextMeta == ReceiveImageMetadata

SpecMeta == InitMeta /\ [][NextMeta]_vars

-----------------------------------------------------------------------------
(* The temporary-upload endpoints of photo_route.py: SpecUpload.  A user    *)
(* asks for presigned URLs, PUTs objects under the keys of the answers and  *)
(* asks for temporary keys to be deleted.  api_store is the bucket (a set   *)
(* of keys) and the keys each user holds from the answers received.  The   *)
(* bucket starts with a permanent object and an object under the temporary  *)
(* prefix of user b.                                                        *)

\* str.startswith
StartsWith(s, prefix) ==
    Len(s) >= Len(prefix) /\ SubSeq(s, 1, Len(prefix)) = prefix

STemp == <<"t", "e", "m", "p">>
SubA == <<"a">>
SubB == <<"b">>
Subjects == {SubA, SubB}
FileX == <<"x">>
FileY == <<"y">>
FileNames == {FileX, FileY}

\* f"temp/{current_user['sub']}/{file_name}"
UserTempKey(sub, file_name) == STemp \o <<"/">> \o sub \o <<"/">> \o file_name

\* f"temp/{current_user['sub']}/", the prefix cleanup_temp_files tests
UserTempPrefix(sub) == STemp \o <<"/">> \o sub \o <<"/">>

\* generate_presigned_url with the temp/ prefix left out of the key
GeneratePresignedUrlAsGiven(file_key, content_type) ==
    [presigned_url |-> [method |-> "put_object", Key |-> file_key,
                        ContentType |-> content_type],
     file_key |-> file_key, expires_in |-> 3600]

\* S3PresignedURLService.generate_presigned_url:
\* temp_key = f"temp/{file_key}" is signed and returned as file_key
generate_presigned_url(file_key, content_type) ==
    LET temp_key == STemp \o <<"/">> \o file_key
    IN  [presigned_url |-> [method |-> "put_object", Key |-> temp_key,
                            ContentType |-> content_type],
         file_key |-> temp_key, expires_in |-> 3600]

\* the answer of a handler whose try block raised
Http500 == [status |-> 500, body |-> << >>]

\* POST /photos/presigned-url
get_presigned_url(sub, request, fault) ==
    IF fault THEN Http500
    ELSE LET d == generate_presigned_url(
                      UserTempKey(sub, request.file_name), request.content_type)
         IN  [status |-> 200,
              body |-> <<[presigned_url |-> d.presigned_url,
                          file_key |-> d.file_key,
                          expires_in |-> d.expires_in]>>]

\* POST /photos/batch-presigned-urls: one answer per file, in order
get_batch_presigned_urls(sub, files, fault) ==
    IF fault THEN Http500
    ELSE [status |-> 200,
          body |-> [i \in 1..Len(files) |->
                      get_presigned_url(sub, files[i], FALSE).body[1]]]

\* DELETE /photos/temp-files: delete_file is called on the keys passing the
\* prefix test; failing holds the positions at which delete_file returns False
cleanup_temp_files(sub, file_keys, failing) ==
    LET passed == {i \in 1..Len(file_keys) :
                      StartsWith(file_keys[i], UserTempPrefix(sub))}
        gone == passed \ failing
    IN  [status |-> 200, deleted_count |-> Cardinality(gone),
         deleted |-> {file_keys[i] : i \in gone}]

ImageJpeg == <<"image/jpeg">>
PresignRequests == {[file_name |-> n, content_type |-> ImageJpeg] : n \in FileNames}
BatchRequests ==
    {<<r>> : r \in PresignRequests}
    \cup {<<r1, r2>> : r1 \in PresignRequests, r2 \in PresignRequests}

PermanentKey == <<"p", "o", "s", "t", "s", "/", "1", "/", "x">>
IssuedKeys == {generate_presigned_url(UserTempKey(s, n), ImageJpeg).file_key :
                 s \in Subjects, n \in FileNames}
\* keys a cleanup request names: a permanent key, keys under each user's
\* temporary prefix, and the keys the presign endpoints hand out
CleanupKeys ==
    {PermanentKey} \cup {UserTempKey(s, FileX) : s \in Subjects}
    \cup {k \in IssuedKeys : \E s \in Subjects :
             k = generate_presigned_url(UserTempKey(s, FileX), ImageJpeg).file_key}
CleanupRequests ==
    {<<k>> : k \in CleanupKeys}
    \cup {<<k1, k2>> : k1 \in CleanupKeys, k2 \in CleanupKeys}

InitUpload ==
    /\ ExifIdle
    /\ LocIdle
    /\ DbIdle
    /\ LabIdle
    /\ AlbIdle
    /\ ConcIdle
    /\ api_op = "idle"
    /\ api_in = << >>
    /\ api_out = << >>
    /\ api_pc = "ready"
    /\ api_store = [bucket |-> {PermanentKey, UserTempKey(SubB, FileX)},
                    held |-> [s \in Subjects |-> {}]]

\* the keys of a 200 answer of a presign endpoint
KeysOf(resp) ==
    IF resp.status = 200 THEN {resp.body[i].file_key : i \in DOMAIN resp.body}
    ELSE {}

\* POST /photos/presigned-url by user sub
GetPresignedUrl ==
    \E sub \in Subjects, request \in PresignRequests, fault \in BOOLEAN :
        /\ api_pc = "ready"
        /\ api_op' = "presigned-url"
        /\ api_in' = [sub |-> sub, request |-> request]
        /\ api_out' = get_presigned_url(sub, request, fault)
        /\ api_store' = [api_store EXCEPT
                           !.held[sub] = @ \cup KeysOf(api_out')]
        /\ UNCHANGED api_pc
        /\ UNCHANGED <<exif_vars, loc_vars, db_vars, lab_vars, alb_vars, conc_vars>>

\* POST /photos/batch-presigned-urls by user sub
GetBatchPresignedUrls ==
    \E sub \in Subjects, files \in BatchRequests, fault \in BOOLEAN :
        /\ api_pc = "ready"
        /\ api_op' = "batch-presigned-urls"
        /\ api_in' = [sub |-> sub, request |-> files]
        /\ api_out' = get_batch_presigned_urls(sub, files, fault)
        /\ api_store' = [api_store EXCEPT
                           !.held[sub] = @ \cup KeysOf(api_out')]
        /\ UNCHANGED api_pc
        /\ UNCHANGED <<exif_vars, loc_vars, db_vars, lab_vars, alb_vars, conc_vars>>

\* a user PUTs an object through a presigned URL: the object is stored under
\* the key that was signed, which is the file_key of the answer
PutObject ==
    \E sub \in Subjects :
        \E k \in api_store.held[sub] \ api_store.bucket :
            /\ api_pc = "ready"
            /\ api_op' = "put_object"
            /\ api_in' = [sub |-> sub, request |-> k]
            /\ api_out' = [status |-> 200, body |-> << >>]
            /\ api_store' = [api_store EXCEPT !.bucket = @ \cup {k}]
            /\ UNCHANGED api_pc
            /\ UNCHANGED <<exif_vars, loc_vars, db_vars, lab_vars, alb_vars,
                         conc_vars>>

\* DELETE /photos/temp-files by user sub
CleanupTempFiles ==
    \E sub \in Subjects, file_keys \in CleanupRequests :
        \E failing \in SUBSET (1..Len(file_keys)) :
            /\ api_pc = "ready"
            /\ api_op' = "temp-files"
            /\ api_in' = [sub |-> sub, request |-> file_keys]
            /\ api_out' = cleanup_temp_files(sub, file_keys, failing)
            /\ api_store' = [api_store EXCEPT !.bucket = @ \ api_out'.deleted]
            /\ UNCHANGED api_pc
            /\ UNCHANGED <<exif_vars, loc_vars, db_vars, lab_vars, alb_vars,
                         conc_vars>>

NextUpload ==
    GetPresignedUrl \/ GetBatchPresignedUrls \/ PutObject \/ CleanupTempFiles

SpecUpload == InitUpload /\ [][NextUpload]_vars

-----------------------------------------------------------------------------
(* PUT and DELETE /posts/{post_id}: SpecOwner.  api_store holds the         *)
(* committed rows of the posts table; each request runs in a session of     *)
(* its own, so a request that rolls back leaves the rows as they were.      *)

HttpError(code) == [status |-> code, body |-> << >>]

\* db.query(Post).filter(Post.id == post_id).first(); id is the primary key
FindPost(posts, post_id) == {p \in posts : p.id = post_id}

\* lines 467-475: the fields of the request that are not None are assigned
ApplyUpdate(post, request) ==
    [post EXCEPT
       !.title = IF request.title # NULL THEN request.title ELSE @,
       !.description = IF request.description # NULL THEN request.description
                       ELSE @,
       !.tags = IF request.tags # NULL THEN request.tags ELSE @,
       !.updated_at = "utcnow"]

\* update_post without the comparison of post.user_id and the principal
UpdatePostUnchecked(posts, sub, post_id, request, outcome) ==
    LET found == FindPost(posts, post_id)
    IN  IF found = {} THEN [posts |-> posts, resp |-> HttpError(404)]
        ELSE LET post == CHOOSE p \in found : TRUE
                 changed == ApplyUpdate(post, request)
             IN  IF outcome = "commit_raises"
                 THEN [posts |-> posts, resp |-> HttpError(500)]
                 ELSE [posts |-> (posts \ {post}) \cup {changed},
                       resp |-> IF outcome = "response_raises"
                                THEN HttpError(500)
                                ELSE [status |-> 200, body |-> changed]]

\* update_post.  outcome is what the statements after the permission check
\* do: db.commit() raises (the session is rolled back), or PostResponse(...)
\* raises after the commit (the rollback then undoes nothing), or neither.
update_post(posts, sub, post_id, request, outcome) ==
    LET found == FindPost(posts, post_id)
    IN  IF found = {} THEN [posts |-> posts, resp |-> HttpError(404)]
        ELSE LET post == CHOOSE p \in found : TRUE
                 changed == ApplyUpdate(post, request)
             IN  IF post.user_id # sub
                 THEN [posts |-> posts, resp |-> HttpError(403)]
                 ELSE IF outcome = "commit_raises"
                 THEN [posts |-> posts, resp |-> HttpError(500)]
                 ELSE [posts |-> (posts \ {post}) \cup {changed},
                       resp |-> IF outcome = "response_raises"
                                THEN HttpError(500)
                                ELSE [status |-> 200, body |-> changed]]

\* delete_post: db.delete(post), db.commit()
delete_post(posts, sub, post_id, outcome) ==
    LET found == FindPost(posts, post_id)
    IN  IF found = {} THEN [posts |-> posts, resp |-> HttpError(404)]
        ELSE LET post == CHOOSE p \in found : TRUE
             IN  IF post.user_id # sub
                 THEN [posts |-> posts, resp |-> HttpError(403)]
                 ELSE IF outcome = "commit_raises"
                 THEN [posts |-> posts, resp |-> HttpError(500)]
                 ELSE [posts |-> posts \ {post},
                       resp |-> [status |-> 200, body |-> <<"deleted">>]]

\* the post of user a as create_post stored it
OwnedPost ==
    [id |-> 1, user_id |-> SubA, title |-> "trip", description |-> NULL,
     tags |-> "[]", updated_at |-> "created"]

\* ids a request names: the stored post and one that was never stored
RequestedPostIds == {OwnedPost.id, OwnedPost.id + 1}

PostUpdateRequests ==
    [title : {NULL, "new title"}, description : {NULL, "new text"},
     tags : {NULL, <<"new">>}]

InitOwner ==
    /\ ExifIdle
    /\ LocIdle
    /\ DbIdle
    /\ LabIdle
    /\ AlbIdle
    /\ ConcIdle
    /\ api_op = "idle"
    /\ api_in = << >>
    /\ api_out = << >>
    /\ api_pc = "ready"
    /\ api_store = [posts |-> {OwnedPost}]

\* PUT /posts/{post_id} by the principal sub
UpdatePost ==
    \E sub \in Subjects, post_id \in RequestedPostIds,
       request \in PostUpdateRequests,
       outcome \in {"ok", "commit_raises", "response_raises"} :
        /\ api_pc = "ready"
        /\ api_op' = "update_post"
        /\ api_in' = [sub |-> sub, post_id |-> post_id, request |-> request]
        /\ LET r == update_post(api_store.posts, sub, post_id, request, outcome)
           IN  /\ api_out' = r.resp
               /\ api_store' = [posts |-> r.posts]
        /\ UNCHANGED api_pc
        /\ UNCHANGED <<exif_vars, loc_vars, db_vars, lab_vars, alb_vars, conc_vars>>

\* DELETE /posts/{post_id} by the principal sub
DeletePost ==
    \E sub \in Subjects, post_id \in RequestedPostIds,
       outcome \in {"ok", "commit_raises"} :
        /\ api_pc = "ready"
        /\ api_op' = "delete_post"
        /\ api_in' = [sub |-> sub, post_id |-> post_id, request |-> << >>]
        /\ LET r == delete_post(api_store.posts, sub, post_id, outcome)
           IN  /\ api_out' = r.resp
               /\ api_store' = [posts |-> r.posts]
        /\ UNCHANGED api_pc
        /\ UNCHANGED <<exif_vars, loc_vars, db_vars, lab_vars, alb_vars, conc_vars>>

NextOwner == UpdatePost \/ DeletePost

SpecOwner == InitOwner /\ [][NextOwner]_vars

-----------------------------------------------------------------------------
(* Claims about the EXIF normalizer, checked under SpecExif *)

\* C1: every call of process_exif_data, whatever the shape of its input
\* (null, empty, a non-dict, missing or ill-typed fields), returns a result
\* mapping and does not raise; a null or empty input yields the default
\* metadata.
C1_ProcessExifNeverRaises ==
    exif_pc = "done" =>
        /\ ~exif_out.raised
        /\ exif_in.shape \in {"null", "empty"} =>
               exif_out.val = _get_default_metadata

\* a call on an input of the wrong type has returned
C1_Witness ==
    /\ exif_pc = "done"
    /\ exif_in.shape = "nondict"
    /\ exif_out.val = _get_default_metadata

IsNumeric(x) == x.p \in {"num", "numstr", "nan"}
InRange(x, bound) == x.p \in {"num", "numstr"} /\ -bound <= x.n /\ x.n <= bound

\* C10: for a gps input whose latitude and longitude are numeric, the
\* output gps holds latitude iff the input latitude is within [-90, 90] and
\* longitude iff the input longitude is within [-180, 180], independently.
C10_CoordinatesValidatedIndependently ==
    (/\ exif_pc = "done"
     /\ exif_in.shape = "dict"
     /\ exif_in.gps.shape = "dict"
     /\ IsNumeric(exif_in.gps.latitude)
     /\ IsNumeric(exif_in.gps.longitude))
    => /\ exif_out.val.gps.latitude.has
            <=> InRange(exif_in.gps.latitude, LatMax)
       /\ exif_out.val.gps.longitude.has
            <=> InRange(exif_in.gps.longitude, LonMax)

\* C11: when the coercion of one gps coordinate raises (a non-numeric
\* latitude or longitude) while the other coordinate is a valid in-range
\* number, only the failed coordinate is dropped: the output gps is non-null
\* and still holds the other coordinate.
C11_FailedCoercionDropsOneCoordinate ==
    (/\ exif_pc = "done"
     /\ exif_in.shape = "dict"
     /\ exif_in.gps.shape = "dict")
    => /\ (CoerceRaises(exif_in.gps.latitude)
           /\ InRange(exif_in.gps.longitude, LonMax))
          => /\ ~exif_out.val.gps.null
             /\ ~exif_out.val.gps.latitude.has
             /\ exif_out.val.gps.longitude = Num(exif_in.gps.longitude.n)
       /\ (CoerceRaises(exif_in.gps.longitude)
           /\ InRange(exif_in.gps.latitude, LatMax))
          => /\ ~exif_out.val.gps.null
             /\ ~exif_out.val.gps.longitude.has
             /\ exif_out.val.gps.latitude = Num(exif_in.gps.latitude.n)

\* C12: for every gps input, with or without an altitude, whenever the
\* output holds neither latitude nor longitude the output gps is null,
\* never a mapping without coordinates.
C12_NoCoordinatesMeansNullGps ==
    (/\ exif_pc = "done"
     /\ exif_in.shape = "dict"
     /\ exif_in.gps.shape = "dict"
     /\ exif_in.gps.latitude.p # "missing"
     /\ exif_in.gps.longitude.p # "missing"
     /\ ~exif_out.val.gps.latitude.has
     /\ ~exif_out.val.gps.longitude.has)
    => exif_out.val.gps.null

-----------------------------------------------------------------------------
(* Claims about the location operations, checked under SpecLoc *)

\* C5: enhance_location_info never fails: whatever the external
\* collaborators do, the call returns the location accumulated so far.
C5_EnhanceNeverFails ==
    (loc_op = "enhance" /\ loc_pc = "done") => loc_resp = "ok"

MergedFields == {"country", "city", "region", "address"}

\* C6: the geocoding merge of enhance_location_info and of
\* batch_process_photos leaves every country, city, region and address that
\* the incoming record already holds as it was, for every geocoding result.
C6_GeocodeMergeKeepsSetFields ==
    loc_op \in {"enhance", "batch"} =>
        \A i \in 1..Len(loc_in) : \A f \in MergedFields :
            IsSet(loc_in[i][f]) => loc_acc[i][f] = loc_in[i][f]

\* the merge ran on a record that held a country, with a geocoder that
\* answered another country and a city, and it filled the city
C6_Witness ==
    /\ loc_op = "enhance" /\ loc_pc = "llm"
    /\ loc_ext.kind = "geo_ok"
    /\ loc_in[1].country = "Korea" /\ loc_in[1].city = NULL
    /\ loc_acc[1].country = "Korea" /\ loc_acc[1].city = "Tokyo"

\* C7: enhance_location_with_ocr keeps every non-null value of
\* existing_location, whatever the LLM returned for that key.
C7_OcrMergeKeepsExisting ==
    (loc_op = "ocr" /\ loc_pc = "done" /\ loc_ext.kind = "object") =>
        \A k \in DictKeys :
            loc_in[1][k] \notin {MISSING, NULL} => loc_acc[1][k] = loc_in[1][k]

\* C8: an LLM response that does not parse as one JSON object contributes
\* the empty object: the merged record equals the record before the merge
\* and nothing is raised.
C8_ParseFailureIsNoOp ==
    (/\ loc_op = "ocr" /\ loc_pc = "done"
     /\ loc_ext.kind \in {"garbage", "nonobject"})
    => loc_acc = loc_in /\ loc_resp = "ok"

\* C9: enhance_location_with_context returns a record whose geo fields
\* (country, landmark, coordinates, ...) equal those of its input record.
C9_ContextIsAdditiveOnly ==
    (loc_op = "context" /\ loc_pc = "done") =>
        \A k \in GeoFieldKeys : loc_acc[1][k] = loc_in[1][k]

-----------------------------------------------------------------------------
(* Claims about the labeling service, checked under SpecLabel *)

\* the stored labels of a photo that carry a source
StoredLabels(photo_id, source) == StoredRows(db, "label", photo_id, source)

\* C4: replace-by-source: after any sequence of earlier saves, a successful
\* save_exif_labels(photo, exif) leaves as the stored labels of source exif
\* of that photo exactly the labels derived from this exif input, and a
\* successful save_llm_labels(photo, labels) does the same for source llm.
C4_ReplaceBySource ==
    /\ (db_call.fn = "save_exif_labels" /\ db_call.ok) =>
          StoredLabels(db_call.photo_id, "exif")
            = LabelObjects(db_call.photo_id, "exif",
                           ExifLabelRows(db_call.exif_data))
    /\ (db_call.fn = "save_llm_labels" /\ db_call.ok) =>
          StoredLabels(db_call.photo_id, "llm")
            = LabelObjects(db_call.photo_id, "llm",
                           SavedLlmLabels(db_call.llm_labels))

\* a successful save of the four labels of ExifEquator for a photo that held
\* the seven exif labels of ExifFull and also holds labels of source llm
C4_Witness ==
    /\ db_call.fn = "save_exif_labels" /\ db_call.ok
    /\ db_call.exif_data = ExifEquator
    /\ db_call.replaced = 7
    /\ Cardinality(StoredLabels(db_call.photo_id, "exif")) = 4
    /\ StoredLabels(db_call.photo_id, "llm") # {}

-----------------------------------------------------------------------------
(* Claims about post creation, checked under SpecPost *)

\* C2: post creation is all-or-nothing: when the operation has ended,
\* either it succeeded and the post and every record the operation added
\* for it are committed, or it failed and the datastore holds no record of
\* that post.
C2_PostCreationAllOrNothing ==
    post_pc = "done" =>
        IF post_resp.status = "ok"
        THEN PostRow \in db.rows /\ post_hist.added \subseteq db.rows
        ELSE db.rows = {}

\* C3: a database write failure during post creation is surfaced: the
\* operation never returns a success response after one of its writes
\* failed, and the failed operation leaves nothing of its transaction.
C3_WriteFailureSurfaces ==
    (post_pc = "done" /\ post_hist.failed) =>
        /\ post_resp.status = "500"
        /\ db.ins = {} /\ db.pend = {} /\ db.del = {}

-----------------------------------------------------------------------------
(* Claims about label derivation, checked under SpecDerive *)

Holds(labels, name) == \E i \in 1..Len(labels) : labels[i] = <<name>>

\* how many of the labels are the name
Count(labels, name) == Cardinality({i \in 1..Len(labels) : labels[i] = <<name>>})

\* the label rows save_exif_labels stored for the photo under a type
StoredOfType(ltype) == {r \in StoredLabels(1, "exif") : r.ltype = ltype}
StoredCount(ltype, name) ==
    Cardinality({r \in StoredOfType(ltype) : r.name = <<name>>})

Prepared == lab_pc \in {"prepared", "saved"}
Saved == lab_pc = "saved" /\ db_call.ok

\* C13: for every normalized EXIF whose gps holds both a latitude and a
\* longitude, the location labels derived by prepare_exif_for_labeling, and
\* those save_exif_labels persists, include has_gps_coordinates.
C13_HasGpsCoordinates ==
    (/\ ~lab_in.gps.null
     /\ lab_in.gps.latitude.has
     /\ lab_in.gps.longitude.has)
    => /\ Prepared => Holds(lab_out.location_labels, "has_gps_coordinates")
       /\ Saved => StoredCount("location", "has_gps_coordinates") = 1

TimeOfDayNames == {"morning", "afternoon", "evening", "night"}

\* the time labels are has_datetime followed by the labels of the set
TimeLabelsAre(labels, buckets) ==
    /\ Len(labels) = 1 + Cardinality(buckets)
    /\ labels[1] = <<"has_datetime">>
    /\ \A b \in buckets : Count(labels, b) = 1

\* the bucket the claim gives the hour
ClaimedBucket(h) ==
    {b \in TimeOfDayNames :
        \/ b = "morning" /\ 6 <= h /\ h < 12
        \/ b = "afternoon" /\ 12 <= h /\ h < 18
        \/ b = "evening" /\ 18 <= h /\ h < 22
        \/ b = "night" /\ (h < 6 \/ h >= 22)}

\* C14: for every present datetime the derivation emits has_datetime; when
\* the hour parses it emits exactly one time-of-day label besides (morning
\* iff 6 <= h < 12, afternoon iff 12 <= h < 18, evening iff 18 <= h < 22,
\* night otherwise), and when it does not parse it emits has_datetime only.
C14_TimeOfDayLabels ==
    lab_in.datetime.has =>
        LET h == IsoHour(ReplaceZ(lab_in.datetime.s))
            buckets == IF h.ok THEN ClaimedBucket(h.hour) ELSE {}
        IN  /\ Prepared => TimeLabelsAre(lab_out.time_labels, buckets)
            /\ Saved =>
                 /\ Cardinality(StoredOfType("time")) = 1 + Cardinality(buckets)
                 /\ StoredCount("time", "has_datetime") = 1
                 /\ \A b \in buckets : StoredCount("time", b) = 1

\* the labels of 18:30:45 are stored: evening starts at 18
C14_Witness ==
    /\ Saved
    /\ lab_in.datetime = SomeStr(DtAtHour(18))
    /\ lab_out.time_labels = <<<<"has_datetime">>, <<"evening">>>>

AspectNames == {"landscape", "portrait", "square"}

\* width/height > 3/2 and width/height < 7/10, for a height that is not 0
RatioAbove(w, h) == IF h > 0 THEN 2 * w > 3 * h ELSE 2 * w < 3 * h
RatioBelow(w, h) == IF h > 0 THEN 10 * w < 7 * h ELSE 10 * w > 7 * h

\* the aspect label the claim gives the image
ClaimedAspect(w, h) ==
    {a \in AspectNames :
        \/ a = "landscape" /\ RatioAbove(w, h)
        \/ a = "portrait" /\ RatioBelow(w, h)
        \/ a = "square" /\ ~RatioAbove(w, h) /\ ~RatioBelow(w, h)}

\* exactly one aspect label is held, and it is the claimed one
AspectLabelsAre(w, h) ==
    /\ Prepared =>
          \A a \in AspectNames :
              Count(lab_out.image_labels, a)
                = (IF a \in ClaimedAspect(w, h) THEN 1 ELSE 0)
    /\ Saved =>
          \A a \in AspectNames :
              StoredCount("image", a)
                = (IF a \in ClaimedAspect(w, h) THEN 1 ELSE 0)

\* C15 as stated: for every image_info with width and height present, the
\* derived image labels contain exactly one of landscape, portrait, square:
\* landscape iff width/height > 1.5, portrait iff width/height < 0.7, and
\* square otherwise.
C15_AspectLabelWhenPresent ==
    (lab_in.image_info.width.has /\ lab_in.image_info.height.has /\ Prepared)
    => \E a \in AspectNames :
          /\ Count(lab_out.image_labels, a) = 1
          /\ \A b \in AspectNames \ {a} : Count(lab_out.image_labels, b) = 0

\* C15 amended: for every image_info whose width and height are present and
\* not 0, the derived and the persisted image labels contain exactly one of
\* landscape, portrait, square: landscape iff width/height > 1.5, portrait
\* iff width/height < 0.7, and square otherwise.
C15_AspectLabelWhenNonZero ==
    (/\ lab_in.image_info.width.has /\ lab_in.image_info.width.n # 0
     /\ lab_in.image_info.height.has /\ lab_in.image_info.height.n # 0)
    => AspectLabelsAre(lab_in.image_info.width.n, lab_in.image_info.height.n)

\* the image of ratio exactly 1.5 has been labelled and stored as square
C15_Witness ==
    /\ Saved
    /\ lab_in.image_info.width = Num(3) /\ lab_in.image_info.height = Num(2)
    /\ lab_out.image_labels = <<<<"square">>>>

\* C16 as stated: for width 4032 and height 3024 (ratio 1.333, the middle
\* band) none of landscape, portrait, square is applied; for width 4032 and
\* height 2016 (ratio 2.0) landscape is applied.
C16_MiddleBandUnlabelled ==
    Prepared =>
        /\ (lab_in.image_info.width = Num(4032)
            /\ lab_in.image_info.height = Num(3024))
           => \A a \in AspectNames : ~Holds(lab_out.image_labels, a)
        /\ (lab_in.image_info.width = Num(4032)
            /\ lab_in.image_info.height = Num(2016))
           => Holds(lab_out.image_labels, "landscape")

\* C16 amended: for width 4032 and height 3024 the label square is applied
\* and neither landscape nor portrait; for width 4032 and height 2016 the
\* label landscape is applied and neither portrait nor square.
C16_MiddleBandIsSquare ==
    Prepared =>
        /\ (lab_in.image_info.width = Num(4032)
            /\ lab_in.image_info.height = Num(3024))
           => /\ Holds(lab_out.image_labels, "square")
              /\ ~Holds(lab_out.image_labels, "landscape")
              /\ ~Holds(lab_out.image_labels, "portrait")
        /\ (lab_in.image_info.width = Num(4032)
            /\ lab_in.image_info.height = Num(2016))
           => /\ Holds(lab_out.image_labels, "landscape")
              /\ ~Holds(lab_out.image_labels, "portrait")
              /\ ~Holds(lab_out.image_labels, "square")

\* the 4032 x 3024 image has been through prepare_exif_for_labeling
C16_Witness ==
    /\ Prepared
    /\ lab_in.image_info.width = Num(4032)
    /\ lab_in.image_info.height = Num(3024)
    /\ lab_out.image_labels # << >>

\* the labels prepare_exif_for_labeling returned, as (type, name) pairs
PreparedPairs ==
    {<<"location", lab_out.location_labels[i]>> :
        i \in DOMAIN lab_out.location_labels}
    \cup {<<"time", lab_out.time_labels[i]>> : i \in DOMAIN lab_out.time_labels}
    \cup {<<"camera", lab_out.camera_labels[i]>> :
            i \in DOMAIN lab_out.camera_labels}
    \cup {<<"image", lab_out.image_labels[i]>> : i \in DOMAIN lab_out.image_labels}

\* C27: the two implementations of the label rules agree: for every
\* normalized EXIF on which both complete, the (label_type, label_name) set
\* stored by save_exif_labels equals the labels prepare_exif_for_labeling
\* returned under the types location, time, camera and image, and every
\* stored label has confidence 1.0 and source exif.
C27_DerivationsAgree ==
    Saved =>
        /\ {<<r.ltype, r.name>> : r \in StoredLabels(1, "exif")} = PreparedPairs
        /\ \A r \in StoredLabels(1, "exif") :
              r.conf = ExifConfidence /\ r.src = "exif"

\* both derivations completed on a record that yields labels of all four
\* types, and the stored set is the prepared one
C27_Witness ==
    /\ Saved
    /\ \A ty \in {"location", "time", "camera", "image"} : StoredOfType(ty) # {}
    /\ {<<r.ltype, r.name>> : r \in StoredLabels(1, "exif")} = PreparedPairs

-----------------------------------------------------------------------------
(* Claims about the category classifier, checked under SpecAlbum *)

\* the text of a location field: a missing key and None hold no text
FieldText(v) == IF v.k = "str" THEN Lower(v.s) ELSE Str0

\* the table entries that match the country text or the city text of the
\* classified location, case-insensitively
MatchingEntries ==
    {i \in DOMAIN country_cities :
        \/ CountryMatches(country_cities[i],
                          FieldText(alb_in.location_info.country))
        \/ CityMatches(country_cities[i],
                       FieldText(alb_in.location_info.city))}

\* C17: country classification is first-match-wins over the table order
\* korea, japan, china, usa, uk, france, germany, italy: the country that
\* classify_photo_categories returns for a location is the first table
\* entry that matches the location's country or city text, and no match
\* evaluated later replaces it.
C17_CountryFirstMatchWins ==
    (alb_op = "photo" /\ alb_pc = "done"
     /\ alb_in.location_info.shape = "dict"
     /\ alb_in.location_info.country.k # "none"
     /\ alb_in.location_info.city.k # "none") =>
        alb_out.country =
            IF MatchingEntries = {} THEN NoStr
            ELSE SomeStr(country_cities[First(MatchingEntries)].country)

\* C18: suggest_themes returns exactly the themes that have at least one
\* keyword occurring, case-insensitively, as a substring of the concatenated
\* country, city and landmark text, as a list without duplicates that is
\* sorted lexically.
C18_SuggestedThemesSorted ==
    (alb_op = "themes" /\ alb_pc = "done") =>
        /\ {alb_out[i] : i \in DOMAIN alb_out} =
              IF alb_in.location_info.shape = "dict"
              THEN SuggestedThemes(alb_in.location_info) ELSE {}
        /\ \A i, j \in DOMAIN alb_out : i # j => alb_out[i] # alb_out[j]
        /\ IsSortedList(alb_out)

\* C19: for every classification result the confidence equals 0.4 if a
\* country is present, plus 0.3 if a city is present, plus
\* min(0.2, 0.1 x number of themes), plus 0.1 if a region is present, and
\* lies within [0, 1] (in tenths: 4, 3, min(2, n), 1, within 0..10).
C19_ConfidenceFormula ==
    (alb_op = "photo" /\ alb_pc = "done") =>
        /\ alb_out.confidence =
              (IF alb_out.country.has THEN 4 ELSE 0)
              + (IF alb_out.city.has THEN 3 ELSE 0)
              + Min2(2, Len(alb_out.themes))
              + (IF alb_out.region.has THEN 1 ELSE 0)
        /\ alb_out.confidence >= 0
        /\ alb_out.confidence <= 10

\* a photo classified with every signal present: country, city, region and
\* two themes
C19_Witness ==
    /\ alb_op = "photo" /\ alb_pc = "done"
    /\ alb_out.country.has /\ alb_out.city.has /\ alb_out.region.has
    /\ Len(alb_out.themes) = 2
    /\ alb_out.confidence = 10

\* some photo of the album has the country s
HasCountry(s) ==
    \E i \in DOMAIN alb_in.photos :
        /\ alb_in.photos[i].categories.has
        /\ alb_in.photos[i].categories.val.country = SomeStr(s)

\* C20: album aggregation is case-insensitive on country: when two photos
\* whose countries are the case variants "Korea" and "korea" are
\* aggregated, the countries of the album hold a single entry for them.
C20_CountryCaseInsensitive ==
    (alb_op = "album" /\ alb_pc = "done"
     /\ HasCountry(SKoreaCap) /\ HasCountry(SKorea)) =>
        Cardinality({k \in DOMAIN alb_out.countries :
                        Lower(alb_out.countries[k]) = SKorea}) = 1

-----------------------------------------------------------------------------
(* Claims about the stored categories, checked under SpecPost *)

\* C21: for every created post the stored Category records hold at most one
\* record per (category_type, category_name) pair, whatever duplicates the
\* category lists of the request or the countries and cities of the photos
\* hold.
C21_OneCategoryPerPair ==
    post_resp.status = "ok" =>
        \A a, b \in {r \in db.rows : r.tbl = "category"} :
            (a.parent = b.parent /\ a.ltype = b.ltype /\ a.name = b.name)
                => a = b

-----------------------------------------------------------------------------
(* Claims about the album aggregation, checked under SpecAlbum *)

\* the datetimes of the album's photos that strptime parses
ParseableDates ==
    {dt \in {Strptime(alb_in.photos[i].exif.datetime.s) :
               i \in {i \in DOMAIN alb_in.photos :
                        /\ alb_in.photos[i].exif.k = "dict"
                        /\ alb_in.photos[i].exif.datetime.k = "str"}} : dt.ok}

\* C22: the date_range of classify_album_categories has as start_date the
\* minimum and as end_date the maximum of all parseable EXIF datetimes of the
\* photos, and as duration_days the whole days between them, at least 0; a
\* photo with an unparseable datetime is skipped without affecting the
\* others, and date_range is null exactly if no photo has a parseable
\* datetime.
C22_DateRangeOverParseable ==
    (alb_op = "album" /\ alb_pc = "done") =>
        /\ alb_out.date_range.has <=> ParseableDates # {}
        /\ alb_out.date_range.has =>
              \E lo, hi \in ParseableDates :
                  /\ \A dt \in ParseableDates : NotAfter(lo, dt) /\ NotAfter(dt, hi)
                  /\ alb_out.date_range.start_date = IsoFormat(lo)
                  /\ alb_out.date_range.end_date = IsoFormat(hi)
                  /\ alb_out.date_range.duration_days = DaysBetween(lo, hi)
                  /\ alb_out.date_range.duration_days >= 0

-----------------------------------------------------------------------------
(* Claims about the location merges, checked under SpecMerge *)

\* C23: merge idempotence: for every location record and every merge input,
\* applying the same merge twice in sequence (the geocoding merge, or the
\* OCR merge with the same LLM output) yields the same record as applying
\* it once.
C23_MergeIdempotent ==
    (loc_op \in {"merge_geo", "merge_ocr"} /\ Len(loc_acc) >= 3) =>
        loc_acc[3] = loc_acc[2]

\* a geocoding merge that filled the country was applied twice
C23_Witness ==
    /\ loc_op = "merge_geo"
    /\ Len(loc_acc) >= 3
    /\ loc_acc[2] # loc_acc[1]
    /\ loc_in[1].country = NULL /\ loc_acc[3].country = "Japan"

\* an OCR merge that changed the record was applied twice
C23_WitnessOcr ==
    /\ loc_op = "merge_ocr"
    /\ Len(loc_acc) >= 3
    /\ loc_acc[2] # loc_acc[1]
    /\ loc_acc[3]["landmark"] = "Skytree"

\* C26: when reverse geocoding succeeds and returns a state and a full
\* address for the coordinates, and the incoming record has no region and
\* no address, the geocoding merge fills the record's region and address
\* with the geocoder's values, as it does for country and city.
C26_GeocodeFillsRegionAndAddress ==
    (/\ loc_op = "merge_geo" /\ Len(loc_acc) >= 2
     /\ loc_in[1].coordinates # NULL
     /\ loc_ext.ok
     /\ IsSet(loc_ext.data.address.state) /\ IsSet(loc_ext.data.display_name)
     /\ ~IsSet(loc_in[1].region) /\ ~IsSet(loc_in[1].address)) =>
        /\ loc_acc[2].region = loc_ext.data.address.state
        /\ loc_acc[2].address = loc_ext.data.display_name

-----------------------------------------------------------------------------
(* Claims about a reader racing a save call, checked under SpecConc *)

\* the labels of the source among the rows the reader got
SeenOfSource == {r \in conc_seen.rows : r.src = conc_gen.src}

-----------------------------------------------------------------------------
(* Claims about POST /images/metadata, checked under SpecMeta *)

\* C25: for every valid request the answer has status success and echoes
\* the request: data.location is null exactly if the request has no gps;
\* with gps, location.coordinates is [lng, lat] and altitude, accuracy and
\* the estimated flag equal gps.alt, gps.accuracyM and flags.isEstimatedGeo;
\* capturedAt and dimensions carry the request's values, null where absent.
C25_MetadataEchoed ==
    (api_op = "metadata" /\ api_pc = "done") =>
        /\ api_out.status = "success"
        /\ api_out.data.location.null <=> ~api_in.gps.has
        /\ api_in.gps.has =>
              /\ api_out.data.location.coordinates[1] = api_in.gps.lng
              /\ api_out.data.location.coordinates[2] = api_in.gps.lat
              /\ Len(api_out.data.location.coordinates) = 2
              /\ api_out.data.location.altitude = api_in.gps.alt
              /\ api_out.data.location.accuracy = api_in.gps.accuracyM
              /\ api_out.data.location.estimated = api_in.flags.isEstimatedGeo
        /\ api_out.data.capturedAt.local = api_in.takenAtLocal
        /\ api_out.data.capturedAt.utc = api_in.takenAtUTC
        /\ api_out.data.capturedAt.timezone_offset = api_in.offsetMinutes
        /\ api_out.data.dimensions.width = api_in.imageWidth
        /\ api_out.data.dimensions.height = api_in.imageHeight
        /\ api_out.data.dimensions.orientation = api_in.orientation

\* an answered request with an estimated position on the equator, without
\* accuracy and without capture times
C25_Witness ==
    /\ api_op = "metadata" /\ api_pc = "done"
    /\ api_in.gps.has /\ api_in.gps.lat = 0 /\ api_in.gps.lng = 127
    /\ api_in.flags.isEstimatedGeo /\ api_in.gps.accuracyM = Absent
    /\ api_in.takenAtLocal = NULL
    /\ api_out.data.location.coordinates = <<127, 0>>
    /\ api_out.data.location.estimated

-----------------------------------------------------------------------------
(* Claims about the temporary-upload endpoints, checked under SpecUpload *)

\* C28: every file key returned to a user u by get_presigned_url or
\* get_batch_presigned_urls passes the ownership test of cleanup_temp_files
\* for u (it starts with temp/<u>/), so u can delete every temporary upload
\* key they were issued; and cleanup_temp_files never deletes a key that
\* does not start with temp/<u>/.
C28_IssuedKeysPassOwnershipTest ==
    /\ \A sub \in Subjects : \A k \in api_store.held[sub] :
          StartsWith(k, UserTempPrefix(sub))
    /\ api_op = "temp-files" =>
          \A k \in api_out.deleted : StartsWith(k, UserTempPrefix(api_in.sub))

-----------------------------------------------------------------------------
(* Claims about PUT and DELETE /posts/{post_id}, checked under SpecOwner *)

\* the principal sub owns the stored post post_id
OwnsPost(posts, post_id, sub) ==
    \E p \in FindPost(posts, post_id) : p.user_id = sub

\* C29: update_post and delete_post modify or remove a post only when the
\* caller's principal equals the post's user_id: for any other caller the
\* outcome is a 403 error (404 if the post does not exist) and the post's
\* title, description, tags and existence are unchanged; no sequence of
\* requests by non-owners changes a post.
C29_OnlyOwnerChangesPost ==
    [][/\ api_store'.posts # api_store.posts =>
              OwnsPost(api_store.posts, api_in'.post_id, api_in'.sub)
       /\ ~OwnsPost(api_store.posts, api_in'.post_id, api_in'.sub) =>
              /\ api_store'.posts = api_store.posts
              /\ api_out'.status =
                     IF FindPost(api_store.posts, api_in'.post_id) = {}
                     THEN 404 ELSE 403]_vars

\* user b asked to change or delete the post of user a, was answered 403,
\* and the post is stored as it was created
C29_Witness ==
    /\ api_op \in {"update_post", "delete_post"}
    /\ api_in.sub = SubB
    /\ api_in.post_id = OwnedPost.id
    /\ api_out.status = 403
    /\ api_store.posts = {OwnedPost}

-----------------------------------------------------------------------------
(* Claims about the photo count of auto_create_post, checked under SpecPost *)

\* the Photo rows committed for the post of the request
PersistedPhotos == {r \in db.rows : r.tbl = "photo" /\ r.parent = post_ids.post}

\* C30: in every successful auto_create_post the photo_count of the response
\* equals the number of Photo records persisted for the new post, including
\* when the move from the temporary to the permanent key fails for some of
\* the photos.
C30_PhotoCountIsPersistedCount ==
    (post_op = "auto" /\ post_pc = "done" /\ post_resp.status = "ok") =>
        post_resp.photo_count = Cardinality(PersistedPhotos)

=============================================================================
